---- MODULE Spec2Model ----
(***************************************************************************)
(* Benchmark score prediction (espadrine/metabench).                       *)
(*                                                                         *)
(* JavaScript numbers are modelled as exact rationals (n / d) * 10^e, with *)
(* NaN as a distinct value; null is a distinct value too.  Rounding of     *)
(* IEEE doubles is not modelled: every result below is about the           *)
(* arithmetic the code writes down, computed exactly.                      *)
(***************************************************************************)
EXTENDS Integers, Sequences, FiniteSets, TLC

(***************************************************************************)
(* Numbers                                                                 *)
(***************************************************************************)
RECURSIVE GCD(_, _)
GCD(a, b) == IF b = 0 THEN a ELSE GCD(b, a % b)

AbsInt(i) == IF i < 0 THEN -i ELSE i

RECURSIVE Pow10(_)
Pow10(k) == IF k = 0 THEN 1 ELSE 10 * Pow10(k - 1)

\* The number (n / d) * 10^e, n / d in lowest terms with d > 0; zero has e = 0.
\* The decimal exponent lets a matrix of very small entries (below the pivot
\* threshold 1e-50) be written with machine-size n and d.
Reduced(n, d, e, g) ==
  IF d < 0 THEN [n |-> (-n) \div g, d |-> (-d) \div g, e |-> IF n = 0 THEN 0 ELSE e]
  ELSE [n |-> n \div g, d |-> d \div g, e |-> IF n = 0 THEN 0 ELSE e]

Sci(n, d, e) == Reduced(n, d, e, GCD(AbsInt(n), AbsInt(d)))

Rat(n, d) == Sci(n, d, 0)
Num(i) == Rat(i, 1)
Zero == [n |-> 0, d |-> 1, e |-> 0]
One == [n |-> 1, d |-> 1, e |-> 0]
NaN == [n |-> 0, d |-> 0, e |-> 0]
\* The result of Math.log on a positive number other than 1: a finite
\* real that is not rational; only the fact that it is one is kept.
Irrational == [n |-> 1, d |-> 0, e |-> 0]
\* JavaScript null (a missing score).
Null == [n |-> -1, d |-> 0, e |-> 0]

IsNum(x) == x.d > 0
\* `x != null`
NotNull(x) == x # Null
\* ToNumber: null is 0 in arithmetic.
ToNumber(x) == IF x = Null THEN Zero ELSE x

\* Decimal digits a sum carries: an addend whose decimal exponent lies this far
\* below the other's is absorbed by it (1e15 + 0.5 is taken as 1e15).  The
\* only such sums of the code are those of the fusion weights 1 / (v + 1e-15).
Digits == 15

\* The numerator of a over the least common denominator of a and b and the
\* common exponent min(a.e, b.e).
AlignedN(a, b) ==
  a.n * (b.d \div GCD(a.d, b.d)) * Pow10(IF a.e > b.e THEN a.e - b.e ELSE 0)

\* x + y
AddNumbers(a, b) ==
  IF a = NaN \/ b = NaN THEN NaN
  ELSE IF a = Irrational \/ b = Irrational THEN Irrational
  ELSE IF a = Zero THEN b
  ELSE IF b = Zero THEN a
  ELSE IF a.e - b.e >= Digits THEN a
  ELSE IF b.e - a.e >= Digits THEN b
  ELSE Sci(AlignedN(a, b) + AlignedN(b, a), (a.d \div GCD(a.d, b.d)) * b.d,
           IF a.e < b.e THEN a.e ELSE b.e)

Add(x, y) == AddNumbers(ToNumber(x), ToNumber(y))

\* x * y, the common factors of numerators and denominators taken out first.
CrossReduced(an, ad, bn, bd, e, g1, g2) ==
  Sci((an \div g1) * (bn \div g2), (ad \div g2) * (bd \div g1), e)

MulNumbers(a, b) ==
  IF a = NaN \/ b = NaN THEN NaN
  ELSE IF a = Zero \/ b = Zero THEN Zero
  ELSE IF a = Irrational \/ b = Irrational THEN Irrational
  ELSE CrossReduced(a.n, a.d, b.n, b.d, a.e + b.e,
                    GCD(AbsInt(a.n), b.d), GCD(AbsInt(b.n), a.d))

Mul(x, y) == MulNumbers(ToNumber(x), ToNumber(y))

Neg(x) == Mul(Num(-1), x)

\* x - y
Negated(b) == IF IsNum(b) THEN [b EXCEPT !.n = -b.n] ELSE b

Sub(x, y) == AddNumbers(ToNumber(x), Negated(ToNumber(y)))

\* x / y for a divisor that is not zero (every division of the code but the
\* one of the consolidated optimizer's gradientDescent is guarded so).
DivNumbers(a, b) ==
  IF a = NaN \/ b = NaN \/ b = Zero THEN NaN
  ELSE IF a = Zero THEN Zero
  ELSE IF a = Irrational \/ b = Irrational THEN Irrational
  ELSE CrossReduced(a.n, a.d, b.d, b.n, a.e - b.e,
                    GCD(AbsInt(a.n), AbsInt(b.n)), GCD(a.d, b.d))

Div(x, y) == DivNumbers(ToNumber(x), ToNumber(y))

Sign(a) == IF a.n > 0 THEN 1 ELSE IF a.n < 0 THEN -1 ELSE 0

\* a < b for numbers a and b.  Exponents further apart than the range of
\* n / d decide the order of the magnitudes by themselves.
LessSigned(a, b, signA, signB) ==
  IF signA # signB THEN signA < signB
  ELSE IF signA = 0 THEN FALSE
  ELSE IF a.e - b.e > 9 THEN signA < 0
  ELSE IF b.e - a.e > 9 THEN signA > 0
  ELSE AlignedN(a, b) < AlignedN(b, a)

LessNum(a, b) == LessSigned(a, b, Sign(a), Sign(b))

\* x < y; false when either side is NaN.
LessNumbers(a, b) == IsNum(a) /\ IsNum(b) /\ LessNum(a, b)

Less(x, y) == LessNumbers(ToNumber(x), ToNumber(y))

\* x >= y; false when either side is NaN.
GreaterEqNumbers(a, b) == IsNum(a) /\ IsNum(b) /\ ~LessNum(a, b)

GreaterEq(x, y) == GreaterEqNumbers(ToNumber(x), ToNumber(y))

\* Math.abs
MathAbs(x) == IF IsNum(x) /\ x.n < 0 THEN [x EXCEPT !.n = -x.n] ELSE x

\* Math.max(x, y)
MathMax(x, y) ==
  IF ToNumber(x) = NaN \/ ToNumber(y) = NaN THEN NaN
  ELSE IF Less(x, y) THEN ToNumber(y) ELSE ToNumber(x)

\* n / d < 10^-t for n >= 0 and d > 0, computed without forming 10^t.
RECURSIVE BelowPow10(_, _, _)
BelowPow10(n, d, t) ==
  IF n = 0 THEN TRUE
  ELSE IF t = 0 THEN n < d
  ELSE IF t > 0 THEN (IF n * 10 >= d THEN FALSE ELSE BelowPow10(n * 10, d, t - 1))
  ELSE (IF n < d * 10 THEN TRUE ELSE BelowPow10(n, d * 10, t + 1))

\* The array or object f with every element computed once.
Stored(f) == f @@ <<>>

\* Sum of a sequence of numbers, left to right from 0 (reduce((a, b) => a + b, 0)).
RECURSIVE SumSeq(_)
SumSeq(s) == IF s = <<>> THEN Zero ELSE Add(SumSeq(SubSeq(s, 1, Len(s) - 1)), s[Len(s)])

\* The largest r with r * r <= n, found bit by bit from 2^15 down.
RECURSIVE IntSqrtFrom(_, _, _)
IntSqrtFrom(n, r, bit) ==
  IF bit = 0 THEN r
  ELSE IntSqrtFrom(n, IF (r + bit) <= 46340 /\ (r + bit) * (r + bit) <= n THEN r + bit ELSE r,
                   bit \div 2)

IntSqrt(n) == IntSqrtFrom(n, 0, 32768)

SquareOf(r, n) == r * r = n

IsSquare(n) == n >= 0 /\ SquareOf(IntSqrt(n), n)

\* Math.sqrt: NaN below zero, the exact root of a square of a rational, and
\* otherwise a positive real which is kept as the root of its radicand.
SqrtOfNumber(a) ==
  IF a = NaN THEN NaN
  ELSE IF a = Irrational THEN Irrational
  ELSE IF a.n < 0 THEN NaN
  ELSE IF a.e % 2 = 0 /\ IsSquare(a.n) /\ IsSquare(a.d)
       THEN Sci(IntSqrt(a.n), IntSqrt(a.d), a.e \div 2)
  ELSE [radicand |-> a]

MathSqrt(x) == SqrtOfNumber(ToNumber(x))

IsRoot(x) == "radicand" \in DOMAIN x

(***************************************************************************)
(* lib/score-prediction.js: Gaussian elimination and matrix inversion      *)
(***************************************************************************)
\* Math.abs(A[i][i]) < 1e-50: the exponent of the threshold.
PivotThresholdExp == 50

\* Mutant: the singularity test is left out.
SingularPivotNever(p) == FALSE

BelowThreshold(a) == BelowPow10(a.n, a.d, PivotThresholdExp + a.e)

SingularPivot(p) == BelowThreshold(MathAbs(p))

\* The row chosen by partial pivoting for column i: the first row k >= i of
\* largest |A[k][i]|.
RECURSIVE PivotRow(_, _, _, _)
PivotRow(A, i, k, maxRow) ==
  IF k > Len(A) THEN maxRow
  ELSE PivotRow(A, i, k + 1,
                IF Less(MathAbs(A[maxRow][i]), MathAbs(A[k][i])) THEN k ELSE maxRow)

SwapRows(s, i, j) == [s EXCEPT ![i] = s[j], ![j] = s[i]]

\* Row k after subtracting factor times row i, columns i..n.
EliminateRow(A, i, k, factor) ==
  [j \in 1..Len(A[k]) |->
     IF j >= i THEN Sub(A[k][j], Mul(factor, A[i][j])) ELSE A[k][j]]

\* A and b after row k has lost factor times row i.
EliminatedRow(A, b, i, k, factor) ==
  [A |-> [A EXCEPT ![k] = EliminateRow(A, i, k, factor)],
   b |-> [b EXCEPT ![k] = Sub(b[k], Mul(factor, b[i]))]]

\* The elimination loop for pivot row i over the rows k..n of s = [A, b].
RECURSIVE Eliminate(_, _, _)
Eliminate(s, i, k) ==
  IF k > Len(s.A) THEN s
  ELSE Eliminate(EliminatedRow(s.A, s.b, i, k, Div(s.A[k][i], s.A[i][i])), i, k + 1)

\* The rows i and maxRow of A and b swapped.
Swapped(s, i, maxRow) == [A |-> SwapRows(s.A, i, maxRow), b |-> SwapRows(s.b, i, maxRow)]

\* The forward pass from column i on, on s = [A, b]: [singular, A, b].
RECURSIVE ForwardEliminate(_, _)
RECURSIVE EliminateUnderPivot(_, _)
ForwardEliminate(s, i) ==
  IF i > Len(s.A) THEN [singular |-> FALSE, A |-> s.A, b |-> s.b]
  ELSE EliminateUnderPivot(Swapped(s, i, PivotRow(s.A, i, i + 1, i)), i)

\* The pivot row is in place: the singularity test, then the elimination.
EliminateUnderPivot(s, i) ==
  IF SingularPivot(s.A[i][i]) THEN [singular |-> TRUE, A |-> s.A, b |-> s.b]
  ELSE ForwardEliminate(Eliminate(s, i, i + 1), i + 1)

\* Mutant: back substitution adds the terms it has to subtract.
RECURSIVE BackRowAdding(_, _, _, _, _)
BackRowAdding(A, x, i, j, acc) ==
  IF j > Len(A) THEN acc
  ELSE BackRowAdding(A, x, i, j + 1, Add(acc, Mul(A[i][j], x[j])))

\* x[i] = (b[i] - sum_{j > i} A[i][j] * x[j]) / A[i][i], j ascending.
RECURSIVE BackRow(_, _, _, _, _)
BackRow(A, x, i, j, acc) ==
  IF j > Len(A) THEN acc
  ELSE BackRow(A, x, i, j + 1, Sub(acc, Mul(A[i][j], x[j])))

RECURSIVE BackSubstitute(_, _, _, _)
BackSubstitute(A, b, x, i) ==
  IF i < 1 THEN x
  ELSE BackSubstitute(A, b,
         [x EXCEPT ![i] = Div(BackRow(A, x, i, i + 1, b[i]), A[i][i])], i - 1)

\* gaussianElimination(A, b): [isNull, x], and the arrays A and b as the
\* call leaves them (it works in place).
BackSolved(f, n) ==
  IF f.singular
  THEN [isNull |-> TRUE, x |-> <<>>, A |-> f.A, b |-> f.b]
  ELSE [isNull |-> FALSE,
        x |-> BackSubstitute(f.A, f.b, Stored([i \in 1..n |-> Zero]), n),
        A |-> f.A, b |-> f.b]

gaussianElimination(A, b) ==
  BackSolved(ForwardEliminate([A |-> Stored(A), b |-> Stored(b)], 1), Len(A))

\* Column col of the identity matrix of size n.
IdentityColumn(n, col) == [i \in 1..n |-> IF i = col THEN One ELSE Zero]

\* The loop of invertMatrix over the columns col..n; inverse[i][col] = x[i].
RECURSIVE InvertColumns(_, _, _)
RECURSIVE InvertedColumn(_, _, _, _)
InvertColumns(matrix, inverse, col) ==
  IF col > Len(matrix) THEN [isNull |-> FALSE, m |-> inverse]
  ELSE InvertedColumn(matrix, inverse, col,
                      gaussianElimination(matrix, IdentityColumn(Len(matrix), col)))

\* The column col of the inverse from the solution r, and the later columns.
InvertedColumn(matrix, inverse, col, r) ==
  IF r.isNull THEN [isNull |-> TRUE, m |-> <<>>]
  ELSE InvertColumns(matrix,
         [i \in 1..Len(matrix) |-> [inverse[i] EXCEPT ![col] = r.x[i]]],
         col + 1)

\* invertMatrix(matrix): [isNull, m].
invertMatrix(matrix) ==
  IF Len(matrix) = 0 THEN [isNull |-> TRUE, m |-> <<>>]
  ELSE InvertColumns(matrix,
         [i \in 1..Len(matrix) |-> Stored([j \in 1..Len(matrix) |-> Zero])], 1)


(***************************************************************************)
(* lib/autograd.js: the computational graph                                *)
(*                                                                         *)
(* The graph is a sequence of nodes; a node's operands are positions of    *)
(* earlier nodes (a node is built from nodes that exist already).          *)
(***************************************************************************)
\* Math.pow(x, k) for an integer k and x # 0 when k < 0.
RECURSIVE MathPow(_, _)
MathPow(x, k) ==
  IF k = 0 THEN One
  ELSE IF k < 0 THEN Div(One, MathPow(x, 0 - k))
  ELSE Mul(x, MathPow(x, k - 1))

\* Math.log(x) for x # 0.
MathLog(x) ==
  IF x = One THEN Zero
  ELSE IF IsNum(x) /\ x.n > 0 THEN Irrational
  ELSE NaN

\* new Computation(value, gradient, operation, operands)
Computation(value, gradient, operation, operands) ==
  [value |-> value, gradient |-> gradient, operation |-> operation, operands |-> operands]

\* new Constant(value), new Variable(value)
Constant(value) == Computation(value, Zero, "constant", <<>>)
Variable(value) == Computation(value, Zero, "variable", <<>>)

\* The graph after this.add(operand), for the nodes at positions this and operand.
add(nodes, this, operand) ==
  Append(nodes, Computation(Add(nodes[this].value, nodes[operand].value), Zero, "add",
                            <<this, operand>>))

\* The graph after this.multiply(operand).
multiply(nodes, this, operand) ==
  Append(nodes, Computation(Mul(nodes[this].value, nodes[operand].value), Zero,
                            "multiply", <<this, operand>>))

\* The operand is the node built last.
AddLast(nodes, this) == add(nodes, this, Len(nodes))
MultiplyByLast(nodes, this) == multiply(nodes, this, Len(nodes))
PowerOfLast(nodes, this) ==
  Append(nodes, Computation(MathPow(nodes[this].value, nodes[Len(nodes)].value.n), Zero,
                            "power", <<this, Len(nodes)>>))

\* The graph after this.power(exponent) for a number exponent: a constant node
\* for the exponent, then the power node.
power(nodes, this, exponent) == PowerOfLast(Append(nodes, Constant(Num(exponent))), this)

\* The graph after this.negate(): this.multiply(-1).
negate(nodes, this) == MultiplyByLast(Append(nodes, Constant(Num(-1))), this)

\* The graph after this.subtract(operand): this.add(operand.negate()).
subtract(nodes, this, operand) == AddLast(negate(nodes, operand), this)

\* The graph after this.divide(operand): this.multiply(operand.power(-1)).
divide(nodes, this, operand) == MultiplyByLast(power(nodes, operand, -1), this)

\* Product of the values of the operands of node k other than the i-th one.
RECURSIVE SiblingProduct(_, _, _, _)
SiblingProduct(nodes, k, i, j) ==
  IF j > Len(nodes[k].operands) THEN One
  ELSE Mul(IF i # j THEN nodes[nodes[k].operands[j]].value ELSE One,
           SiblingProduct(nodes, k, i, j + 1))

\* What computeOperandGradients adds to the gradient of the i-th operand of
\* node k: this.gradient times the expression the code writes for
\* d(this)/d(operand).
OperandContribution(nodes, k, i) ==
  LET this == nodes[k]
      operand == nodes[this.operands[i]]
      exponent == nodes[this.operands[2]].value
  IN  CASE this.operation = "add" -> this.gradient
        [] this.operation = "multiply" ->
             Mul(this.gradient, SiblingProduct(nodes, k, i, 1))
        [] this.operation = "power" /\ i = 1 ->
             Mul(Mul(this.gradient, exponent), MathPow(operand.value, exponent.n - 1))
        [] this.operation = "power" /\ i # 1 ->
             Mul(Mul(this.gradient, MathPow(operand.value, exponent.n)),
                 MathLog(operand.value))
        [] OTHER -> this.gradient

\* computeOperandGradients() on node k, from its i-th operand on: the
\* operand's gradient is increased, then the operand pushes its own gradient
\* down, then the next operand is handled.
RECURSIVE computeOperandGradients(_, _, _)
RECURSIVE PushedDown(_, _, _, _)
computeOperandGradients(nodes, k, i) ==
  IF i > Len(nodes[k].operands) THEN nodes
  ELSE computeOperandGradients(PushedDown(nodes, k, i, nodes[k].operands[i]), k, i + 1)

\* The gradient of the operand at o is increased and pushed down from there.
PushedDown(nodes, k, i, o) ==
  computeOperandGradients(
    [nodes EXCEPT ![o].gradient = Add(@, OperandContribution(nodes, k, i))], o, 1)

\* zerograd() on node k, from its i-th operand on.
RECURSIVE ZeroOperands(_, _, _)
RECURSIVE ZeroedDown(_, _)
ZeroOperands(nodes, k, i) ==
  IF i > Len(nodes[k].operands) THEN nodes
  ELSE ZeroOperands(ZeroedDown(nodes, nodes[k].operands[i]), k, i + 1)

\* zerograd() on the node at o.
ZeroedDown(nodes, o) == ZeroOperands([nodes EXCEPT ![o].gradient = Zero], o, 1)

zerograd(nodes, k) == ZeroedDown(nodes, k)

\* Mutant: a backward pass without zerograd().
computeGradientsOnStale(nodes, root) ==
  computeOperandGradients([nodes EXCEPT ![root].gradient = One], root, 1)

\* computeGradients() on the node at position root.
computeGradients(nodes, root) ==
  computeOperandGradients([zerograd(nodes, root) EXCEPT ![root].gradient = One], root, 1)

(***************************************************************************)
(* lib/score-prediction-weighed-bivariate.js: the table and its index      *)
(*                                                                         *)
(* A table is [models |-> <<[name, benchmarks |-> <<observation>>]>>], an  *)
(* observation [name, score, source, stdDev]; an absent source is "" and   *)
(* an absent stdDev is null.  The indexed table keeps the key order of     *)
(* modelFromName in modelNames.  Company, url and release date are carried *)
(* through untouched and are left out.                                     *)
(***************************************************************************)
Range(s) == {s[i] : i \in 1..Len(s)}

RECURSIVE Flatten(_)
Flatten(ss) == IF ss = <<>> THEN <<>> ELSE Head(ss) \o Flatten(Tail(ss))

\* The elements of s in the order of their first occurrence (a Set's order).
RECURSIVE Distinct(_)
Distinct(s) ==
  IF s = <<>> THEN <<>>
  ELSE LET r == Distinct(SubSeq(s, 1, Len(s) - 1))
       IN  IF s[Len(s)] \in Range(r) THEN r ELSE Append(r, s[Len(s)])

\* The observations pushed to modelFromName[model][bench], in input order.
EntriesOf(benchmarks, model, bench) ==
  Flatten([i \in 1..Len(benchmarks.models) |->
            IF benchmarks.models[i].name = model
            THEN SelectSeq(benchmarks.models[i].benchmarks, LAMBDA e : e.name = bench)
            ELSE <<>>])

\* `${score}` for null and for integers.
NumberToString(x) ==
  CASE x = Null -> "null"
    [] x = NaN -> "NaN"
    [] IsNum(x) /\ x.d = 1 /\ x.e = 0 -> ToString(x.n)

\* `Score ${e.score} at ${e.source}`
EntryText(e) ==
  "Score " \o NumberToString(e.score) \o " at "
           \o (IF e.source = "" THEN "undefined" ELSE e.source)

\* texts.join(sep)
RECURSIVE Join(_, _)
Join(texts, sep) ==
  IF Len(texts) = 0 THEN ""
  ELSE IF Len(texts) = 1 THEN texts[1]
  ELSE texts[1] \o sep \o Join(Tail(texts), sep)

\* `x || 0` takes the right side for these numbers.
Falsy(x) == x = Null \/ x = Zero \/ x = NaN

\* x * x
Square(x) == Mul(x, x)

\* Mutant: the squared errors are divided by the number of observations.
AveragedCellUncorrected(bench, entries, avgScore) ==
  [name |-> bench, score |-> avgScore,
   source |-> "Multiple: " \o
              Join([i \in 1..Len(entries) |-> EntryText(entries[i])], "; "),
   stdDev |-> MathSqrt(Div(SumSeq([i \in 1..Len(entries) |->
                                    Square(Sub(entries[i].score, avgScore))]),
                           Num(Len(entries))))]

\* The cell of several observations: their average avgScore and the
\* standard deviation around it.
AveragedCell(bench, entries, avgScore) ==
  [name |-> bench, score |-> avgScore,
   source |-> "Multiple: " \o
              Join([i \in 1..Len(entries) |-> EntryText(entries[i])], "; "),
   stdDev |-> MathSqrt(Div(SumSeq([i \in 1..Len(entries) |->
                                    Square(Sub(entries[i].score, avgScore))]),
                           Num(Len(entries) - 1)))]

\* Mutant: the cell of one observation drops the stdDev of the observation.
MergeEntriesWithoutDeviation(bench, entries, missingSource) ==
  IF Len(entries) > 1
  THEN AveragedCell(bench, entries,
                    Div(SumSeq([i \in 1..Len(entries) |-> entries[i].score]),
                        Num(Len(entries))))
  ELSE IF Len(entries) = 1
  THEN [name |-> entries[1].name, score |-> entries[1].score,
        source |-> IF entries[1].source = "" THEN "Original" ELSE entries[1].source,
        stdDev |-> Zero]
  ELSE [name |-> bench, score |-> Null, source |-> missingSource, stdDev |-> Zero]

\* The cell made of the observations of one (model, benchmark) pair.
MergeEntries(bench, entries, missingSource) ==
  IF Len(entries) > 1
  THEN AveragedCell(bench, entries,
                    Div(SumSeq([i \in 1..Len(entries) |-> entries[i].score]),
                        Num(Len(entries))))
  ELSE IF Len(entries) = 1
  THEN [name |-> entries[1].name, score |-> entries[1].score,
        source |-> IF entries[1].source = "" THEN "Original" ELSE entries[1].source,
        stdDev |-> IF Falsy(entries[1].stdDev) THEN Zero ELSE entries[1].stdDev]
  ELSE [name |-> bench, score |-> Null, source |-> missingSource, stdDev |-> Zero]

\* indexBenchmarkData(benchmarks); missingSource is the source each variant
\* of the function gives to a cell without observation.
Indexed(benchmarks, modelNames, benchmarkNames, missingSource) ==
  [benchmarkNames |-> benchmarkNames,
   modelNames |-> modelNames,
   modelFromName |->
     Stored([m \in Range(modelNames) |->
       Stored([b \in Range(benchmarkNames) |->
         MergeEntries(b, EntriesOf(benchmarks, m, b), missingSource)])])]

indexBenchmarkData(benchmarks, missingSource) ==
  Indexed(benchmarks,
          Distinct([i \in 1..Len(benchmarks.models) |-> benchmarks.models[i].name]),
          Distinct(Flatten([i \in 1..Len(benchmarks.models) |->
                             [j \in 1..Len(benchmarks.models[i].benchmarks) |->
                                benchmarks.models[i].benchmarks[j].name]])),
          missingSource)

unindexBenchmarkData(benchmarks) ==
  [models |->
    [i \in 1..Len(benchmarks.modelNames) |->
      [name |-> benchmarks.modelNames[i],
       benchmarks |->
         [j \in 1..Len(benchmarks.benchmarkNames) |->
           benchmarks.modelFromName[benchmarks.modelNames[i]][benchmarks.benchmarkNames[j]]]]]]

\* mean(values)
mean(values) ==
  IF Len(values) = 0 THEN Zero ELSE Div(SumSeq(values), Num(Len(values)))

\* The score of a model on a benchmark in an indexed table.
ScoreOf(indexedData, m, b) == indexedData.modelFromName[m][b].score

\* The models, in key order, that have a score on every benchmark of bs.
ModelsWith(indexedData, bs) ==
  SelectSeq(indexedData.modelNames,
            LAMBDA m : \A b \in bs : NotNull(ScoreOf(indexedData, m, b)))

\* The scores of the models ms on a benchmark.
ScoresOf(indexedData, ms, bench) ==
  [i \in 1..Len(ms) |-> ScoreOf(indexedData, ms[i], bench)]

calculateMeansByBenchmark(indexedData) ==
  Stored([bench \in Range(indexedData.benchmarkNames) |->
    mean(ScoresOf(indexedData, ModelsWith(indexedData, {bench}), bench))])

(***************************************************************************)
(* lib/score-prediction-weighed-bivariate.js: pairwise regression and      *)
(* fusion                                                                  *)
(***************************************************************************)
\* Mutant: the slope without the guard on its denominator.
SlopeUnguarded(num, den) == Div(num, den)

\* `den !== 0 ? num / den : 0`
Slope(num, den) == IF den # Zero THEN Div(num, den) ELSE Zero

\* Mutant: the intercept is the mean of the predicted scores.
LineOfSlopeAtMean(a, meanSbj, meanSbk) == [a |-> a, b |-> meanSbk]

\* The line of slope a through the point of the means.
LineOfSlope(a, meanSbj, meanSbk) == [a |-> a, b |-> Sub(meanSbk, Mul(a, meanSbj))]

\* The least-squares line through the points (sbjs[i], sbks[i]).
LineThrough(sbjs, sbks, meanSbj, meanSbk) ==
  LineOfSlope(Slope(SumSeq([i \in 1..Len(sbjs) |->
                             Mul(Sub(sbjs[i], meanSbj), Sub(sbks[i], meanSbk))]),
                    SumSeq([i \in 1..Len(sbjs) |->
                             Mul(Sub(sbjs[i], meanSbj), Sub(sbjs[i], meanSbj))])),
              meanSbj, meanSbk)

EstimatorFrom(sbjs, sbks) ==
  IF Len(sbjs) = 0 THEN [a |-> Zero, b |-> Zero]
  ELSE LineThrough(sbjs, sbks, mean(sbjs), mean(sbks))

EstimatorOn(indexedData, bk, bj, pairs) ==
  EstimatorFrom(Stored(ScoresOf(indexedData, pairs, bj)),
                Stored(ScoresOf(indexedData, pairs, bk)))

Estimator(indexedData, bk, bj) ==
  EstimatorOn(indexedData, bk, bj, ModelsWith(indexedData, {bj, bk}))

calculateBenchmarkEstimators(indexedData) ==
  Stored([bk \in Range(indexedData.benchmarkNames) |->
    Stored([bj \in Range(indexedData.benchmarkNames) |-> Estimator(indexedData, bk, bj)])])

\* predictions[modelName][bk][bj]: present for every bj # bk on which the
\* model has a score.
predictBivariateScoreEstimates(indexedData, estimators) ==
  Stored([modelName \in Range(indexedData.modelNames) |->
    Stored([bk \in Range(indexedData.benchmarkNames) |->
      Stored([bj \in Range(indexedData.benchmarkNames) |->
        LET sj == ScoreOf(indexedData, modelName, bj)
        IN  IF bj = bk \/ sj = Null
            THEN [present |-> FALSE, score |-> Null]
            ELSE [present |-> TRUE,
                  score |-> Add(Mul(sj, estimators[bk][bj].a), estimators[bk][bj].b)]])])])

\* The predictor score of a pair: the model's score on bj or, when it has
\* none, the average of the predictions made for it.
PredictorScore(indexedData, estimations, modelName, bj) ==
  IF NotNull(ScoreOf(indexedData, modelName, bj))
  THEN ScoreOf(indexedData, modelName, bj)
  ELSE LET from == SelectSeq(indexedData.benchmarkNames,
                     LAMBDA bl : estimations[modelName][bj][bl].present)
           modelBjScorePredictions ==
             [i \in 1..Len(from) |-> estimations[modelName][bj][from[i]].score]
       IN  Div(SumSeq(modelBjScorePredictions), Num(Len(modelBjScorePredictions)))

\* First pass of predictBivariateScoreVariances for one pair of benchmarks:
\* mse, n, meanPredictor and sumSqDev.
StatisticsAround(indexedData, est, bk, pairs, predictorScores, meanPredictor) ==
  [mse |-> Div(SumSeq([i \in 1..Len(pairs) |->
                        Square(Sub(ScoreOf(indexedData, pairs[i], bk),
                                   Add(Mul(predictorScores[i], est.a), est.b)))]),
               Num(IF Len(pairs) - 2 > 1 THEN Len(pairs) - 2 ELSE 1)),
   n |-> Len(pairs),
   meanPredictor |-> meanPredictor,
   sumSqDev |-> SumSeq([i \in 1..Len(pairs) |->
                         Mul(Sub(predictorScores[i], meanPredictor),
                             Sub(predictorScores[i], meanPredictor))])]

StatisticsOf(indexedData, est, bk, pairs, predictorScores) ==
  StatisticsAround(indexedData, est, bk, pairs, predictorScores, mean(predictorScores))

StatisticsOn(indexedData, est, estimations, bk, bj, pairs) ==
  IF Len(pairs) = 0
  THEN [mse |-> Zero, n |-> 0, meanPredictor |-> Zero, sumSqDev |-> Zero]
  ELSE StatisticsOf(indexedData, est, bk, pairs,
         Stored([i \in 1..Len(pairs) |->
                  PredictorScore(indexedData, estimations, pairs[i], bj)]))

PairStatistics(indexedData, estimators, estimations, bk, bj) ==
  StatisticsOn(indexedData, estimators[bk][bj], estimations, bk, bj,
               ModelsWith(indexedData, {bk}))

\* Second pass: the variance of the prediction of bk from bj for a model.
VarianceAt(est, predictorScore) ==
  IF predictorScore = Null \/ est.n = 0 \/ est.sumSqDev = Zero
  THEN est.mse
  ELSE Mul(est.mse,
           Add(Add(One, Div(One, Num(est.n))),
               \* the leverage term
               Div(Mul(Sub(predictorScore, est.meanPredictor),
                       Sub(predictorScore, est.meanPredictor)), est.sumSqDev)))

PredictionVariance(indexedData, est, modelName, bj) ==
  VarianceAt(est, ScoreOf(indexedData, modelName, bj))

\* predictBivariateScores: estimations[modelName][bk][bj] = [present, score,
\* variance].
WithVariances(indexedData, estimations, statistics) ==
  Stored([modelName \in Range(indexedData.modelNames) |->
    Stored([bk \in Range(indexedData.benchmarkNames) |->
      Stored([bj \in Range(indexedData.benchmarkNames) |->
        IF estimations[modelName][bk][bj].present
        THEN [present |-> TRUE, score |-> estimations[modelName][bk][bj].score,
              variance |-> PredictionVariance(indexedData, statistics[bk][bj],
                                              modelName, bj)]
        ELSE [present |-> FALSE, score |-> Null, variance |-> Null]])])])

predictBivariateScoreVariances(indexedData, estimators, estimations) ==
  WithVariances(indexedData, estimations,
    Stored([bk \in Range(indexedData.benchmarkNames) |->
      Stored([bj \in Range(indexedData.benchmarkNames) |->
        PairStatistics(indexedData, estimators, estimations, bk, bj)])]))

predictBivariateScores(indexedData, estimators) ==
  predictBivariateScoreVariances(indexedData, estimators,
    predictBivariateScoreEstimates(indexedData, estimators))

\* The source given to an estimated cell.
WeighedSource == "Weighed bivariate regression"

\* 1e-15, added to a variance before it is inverted.
Epsilon == Sci(1, 1, -15)

\* The benchmarks bj of a model whose prediction of bk enters the fusion.
Predictors(indexedData, biScores, modelName, bk) ==
  SelectSeq(indexedData.benchmarkNames,
            LAMBDA bj : /\ NotNull(ScoreOf(indexedData, modelName, bj))
                        /\ biScores[modelName][bk][bj].present
                        /\ NotNull(biScores[modelName][bk][bj].score))

\* The benchmarks bl visited by the inner loop for the predictor bj.
OtherPredictors(indexedData, biScores, modelName, bk, bj) ==
  SelectSeq(indexedData.benchmarkNames,
            LAMBDA bl : /\ bl # bj
                        /\ NotNull(ScoreOf(indexedData, modelName, bl))
                        /\ biScores[modelName][bk][bl].present)

\* The estimate of the cell (modelName, bk): the predictions weighed by the
\* inverse of their variance, or the benchmark's mean without prediction.
\* `1 / (variance + 1e-15)`
WeightOf(variance) == Div(One, Add(variance, Epsilon))

\* The terms of numVar2 of the predictor bj: one per other predictor bl.
\* weight2 is computed from the variance of bj, not of bl.
CrossTerms(bls, weight, weight2) == SumSeq([l \in 1..Len(bls) |-> Mul(weight, weight2)])

\* The cell from the sums of the fusion.
Fused(bk, meanK, num, den, numVar1, numVar2) ==
  IF den = Zero
  THEN [name |-> bk, score |-> meanK, stdDev |-> MathSqrt(Mul(meanK, meanK)),
        source |-> WeighedSource]
  ELSE [name |-> bk, score |-> Div(num, den),
        stdDev |-> MathSqrt(Div(Add(numVar1, numVar2), Mul(den, den))),
        source |-> WeighedSource]

\* The fusion of the predictions cell[bj] of the predictors bjs.
FusedFrom(indexedData, biScores, modelName, bk, meanK, bjs, cell) ==
  Fused(bk, meanK,
        SumSeq([i \in 1..Len(bjs) |-> Mul(cell[bjs[i]].score, WeightOf(cell[bjs[i]].variance))]),
        SumSeq([i \in 1..Len(bjs) |-> WeightOf(cell[bjs[i]].variance)]),
        SumSeq([i \in 1..Len(bjs) |->
                 Mul(Square(WeightOf(cell[bjs[i]].variance)), cell[bjs[i]].variance)]),
        SumSeq([i \in 1..Len(bjs) |->
                 CrossTerms(OtherPredictors(indexedData, biScores, modelName, bk, bjs[i]),
                            WeightOf(cell[bjs[i]].variance),
                            WeightOf(cell[bjs[i]].variance))]))

FusedCell(indexedData, biScores, means, modelName, bk) ==
  FusedFrom(indexedData, biScores, modelName, bk, means[bk],
            Predictors(indexedData, biScores, modelName, bk), biScores[modelName][bk])

\* Mutant: no cell is copied as it is.
KeepsNoCell(bench) == FALSE

\* Mutant: every cell is copied as it is.
KeepsEveryCell(bench) == TRUE

\* The cells copied as they are: `bench.score != null && bench.source !==
\* 'Weighed bivariate regression'`.
KeepsCell(bench) == NotNull(bench.score) /\ bench.source # WeighedSource

\* The new table from the pairwise predictions and the means.
FusedTable(indexedData, biScores, means) ==
  [indexedData EXCEPT !.modelFromName =
    Stored([modelName \in Range(indexedData.modelNames) |->
      Stored([bk \in Range(indexedData.benchmarkNames) |->
        IF KeepsCell(indexedData.modelFromName[modelName][bk])
        THEN indexedData.modelFromName[modelName][bk]
        ELSE FusedCell(indexedData, biScores, means, modelName, bk)])])]

\* computeAllBenchmarks(indexedData): a new indexed table.
computeAllBenchmarks(indexedData) ==
  FusedTable(indexedData,
             predictBivariateScores(indexedData, calculateBenchmarkEstimators(indexedData)),
             calculateMeansByBenchmark(indexedData))

\* Mutant: every pass estimates from the table of the input.
PassesOfInput(indexedData, iterations) ==
  IF iterations <= 0 THEN indexedData ELSE computeAllBenchmarks(indexedData)

\* scoreEstimates after the given number of passes of the loop.
RECURSIVE Passes(_, _)
Passes(indexedData, iterations) ==
  IF iterations <= 0 THEN indexedData
  ELSE computeAllBenchmarks(Passes(indexedData, iterations - 1))

\* The cells of indexedData with score, stdDev and source written back from
\* scoreEstimates.
WriteBack(indexedData, scoreEstimates) ==
  [indexedData EXCEPT !.modelFromName =
    Stored([modelName \in Range(indexedData.modelNames) |->
      Stored([benchName \in Range(indexedData.benchmarkNames) |->
        [indexedData.modelFromName[modelName][benchName] EXCEPT
           !.score = scoreEstimates.modelFromName[modelName][benchName].score,
           !.stdDev = scoreEstimates.modelFromName[modelName][benchName].stdDev,
           !.source = scoreEstimates.modelFromName[modelName][benchName].source]])])]

\* estimateMissingBenchmarks(benchmarks, iterations) of the combiner.
EstimatedFrom(indexedData, iterations) ==
  unindexBenchmarkData(WriteBack(indexedData, Passes(indexedData, iterations)))

estimateMissingBenchmarks(benchmarks, iterations) ==
  EstimatedFrom(indexBenchmarkData(benchmarks, "Bivariate regression"), iterations)

(***************************************************************************)
(* lib/score-prediction.js: multivariate regression                        *)
(***************************************************************************)
MultivariateSource == "Multivariate regression"

\* What trainModelForBenchmark returns without solving anything.
UntrainedModel(featureBenches) ==
  [coefficients |-> <<>>, bias |-> Zero, residualVariance |-> Zero,
   covMatrix |-> [isNull |-> TRUE, m |-> <<>>], featureBenches |-> featureBenches]

\* bias + sum_j beta[j] * xi[j] over the features.
LinearForm(bias, beta, xi, count) ==
  Add(bias, SumSeq([j \in 1..count |-> Mul(beta[j], xi[j])]))

\* `residualVariance`: the mean of the squared residuals over the degrees
\* of freedom, 0 when there are none.
ResidualVariance(X_with_bias, y, beta, count) ==
  IF Len(X_with_bias) - (count + 1) > 0
  THEN MathMax(Zero,
         Div(SumSeq([i \in 1..Len(X_with_bias) |->
                      Square(Sub(y[i], LinearForm(beta[count + 1], beta,
                                                  X_with_bias[i], count)))]),
             Num(Len(X_with_bias) - (count + 1))))
  ELSE Zero

\* `covMatrix`: the inverse of XtX times the residual variance, or null.
CovarianceMatrix(XtX_inverse, residualVariance) ==
  IF XtX_inverse.isNull THEN XtX_inverse
  ELSE [isNull |-> FALSE,
        m |-> Stored([i \in 1..Len(XtX_inverse.m) |->
                Stored([j \in 1..Len(XtX_inverse.m) |->
                  Mul(XtX_inverse.m[i][j], residualVariance)])])]

\* The model of a solved system.
FittedModel(featureBenches, beta, residualVariance, XtX_inverse) ==
  [coefficients |-> SubSeq(beta, 1, Len(featureBenches)),
   bias |-> beta[Len(featureBenches) + 1],
   residualVariance |-> residualVariance,
   covMatrix |-> CovarianceMatrix(XtX_inverse, residualVariance),
   featureBenches |-> featureBenches]

\* Mutant: the fallback of a singular system with bias 0.
ModelWithoutFallbackBias(featureBenches, X_with_bias, y, XtX, solved) ==
  IF solved.isNull
  THEN [coefficients |-> Stored([i \in 1..Len(featureBenches) |-> Zero]),
        bias |-> Zero,
        residualVariance |-> Zero, covMatrix |-> [isNull |-> TRUE, m |-> <<>>],
        featureBenches |-> featureBenches]
  ELSE FittedModel(featureBenches, solved.x,
                   ResidualVariance(X_with_bias, y, solved.x, Len(featureBenches)),
                   invertMatrix(XtX))

\* The model from the outcome of gaussianElimination(XtX, Xty).
ModelFromSolution(featureBenches, X_with_bias, y, XtX, solved) ==
  IF solved.isNull
  THEN [coefficients |-> Stored([i \in 1..Len(featureBenches) |-> Zero]),
        bias |-> Div(SumSeq(y), Num(Len(y))),
        residualVariance |-> Zero, covMatrix |-> [isNull |-> TRUE, m |-> <<>>],
        featureBenches |-> featureBenches]
  ELSE FittedModel(featureBenches, solved.x,
                   ResidualVariance(X_with_bias, y, solved.x, Len(featureBenches)),
                   invertMatrix(XtX))

\* The normal equations XtX beta = Xty, solved.
SolvedNormalEquations(featureBenches, X_with_bias, y, XtX) ==
  ModelFromSolution(featureBenches, X_with_bias, y, XtX,
    gaussianElimination(XtX,
      [j \in 1..Len(featureBenches) + 1 |->
        SumSeq([i \in 1..Len(X_with_bias) |-> Mul(X_with_bias[i][j], y[i])])]))

\* `XtX`
NormalMatrix(X_with_bias, size) ==
  Stored([j \in 1..size |->
    Stored([k \in 1..size |->
      SumSeq([i \in 1..Len(X_with_bias) |->
               Mul(X_with_bias[i][j], X_with_bias[i][k])])])])

TrainedOn(featureBenches, X_with_bias, y) ==
  SolvedNormalEquations(featureBenches, X_with_bias, y,
                        NormalMatrix(X_with_bias, Len(featureBenches) + 1))

\* `X_with_bias`: one row per model, its scores on the features and a 1.
FeatureRows(benchmarks, featureBenches) ==
  Stored([i \in 1..Len(benchmarks.modelNames) |->
    Append(Stored([j \in 1..Len(featureBenches) |->
             ScoreOf(benchmarks, benchmarks.modelNames[i], featureBenches[j])]),
           One)])

\* `y`: the scores of the models on the predicted benchmark.
TargetColumn(benchmarks, bench) ==
  Stored([i \in 1..Len(benchmarks.modelNames) |->
    ScoreOf(benchmarks, benchmarks.modelNames[i], bench)])

TrainedWith(benchmarks, bench, featureBenches) ==
  IF Len(featureBenches) = 0 THEN UntrainedModel(<<>>)
  ELSE IF Len(benchmarks.modelNames) = 0 THEN UntrainedModel(featureBenches)
  ELSE TrainedOn(featureBenches, FeatureRows(benchmarks, featureBenches),
                 TargetColumn(benchmarks, bench))

\* `featureBenches`
FeaturesFor(benchmarks, bench) == SelectSeq(benchmarks.benchmarkNames, LAMBDA b : b # bench)

\* trainModelForBenchmark(benchmarks, bench); coefficients[i] is the
\* coefficient of featureBenches[i].
trainModelForBenchmark(benchmarks, bench) ==
  TrainedWith(benchmarks, bench, FeaturesFor(benchmarks, bench))

\* `x^T covMatrix x`
ReducibleError(x, m) ==
  SumSeq([i \in 1..Len(x) |->
           SumSeq([j \in 1..Len(x) |-> Mul(Mul(x[i], x[j]), m[i][j])])])

PredictionInfo(prediction, predictionVariance) ==
  [prediction |-> prediction, variance |-> predictionVariance,
   stdDev |-> MathSqrt(predictionVariance)]

PredictedAt(benchRegression, x) ==
  PredictionInfo(
    LinearForm(benchRegression.bias, benchRegression.coefficients, x,
               Len(benchRegression.featureBenches)),
    MathMax(Zero, IF benchRegression.covMatrix.isNull
                  THEN benchRegression.residualVariance
                  ELSE Add(benchRegression.residualVariance,
                           ReducibleError(x, benchRegression.covMatrix.m))))

\* predictMissingScore(modelBenchmarks, bench, benchRegression)
predictMissingScore(modelBenchmarks, bench, benchRegression) ==
  PredictedAt(benchRegression,
    Append(Stored([i \in 1..Len(benchRegression.featureBenches) |->
             modelBenchmarks[benchRegression.featureBenches[i]].score]),
           One))

\* The initialization loop: every cell without score takes the score of the
\* weighed bivariate estimate, and that score as its stdDev.
InitializeMissing(benchmarks, initialEstimations) ==
  [benchmarks EXCEPT !.modelFromName =
    Stored([modelName \in Range(benchmarks.modelNames) |->
      Stored([bench \in Range(benchmarks.benchmarkNames) |->
        IF benchmarks.modelFromName[modelName][bench].score = Null
        THEN [benchmarks.modelFromName[modelName][bench]
                EXCEPT !.score = initialEstimations[modelName][bench].score,
                       !.stdDev = initialEstimations[modelName][bench].score]
        ELSE benchmarks.modelFromName[modelName][bench]])])]

\* `eval.score = predictionInfo.prediction; eval.stdDev = predictionInfo.stdDev`
Repredicted(eval, predictionInfo) ==
  [eval EXCEPT !.score = predictionInfo.prediction, !.stdDev = predictionInfo.stdDev]

\* Mutant: every cell is predicted anew.
PredictedAnewAlways(eval) == TRUE

\* `eval.source === 'Multivariate regression'`
PredictedAnew(eval) == eval.source = MultivariateSource

\* The prediction loop of one iteration over the trained models.
PredictedTable(benchmarks, benchRegression) ==
  [benchmarks EXCEPT !.modelFromName =
    Stored([model \in Range(benchmarks.modelNames) |->
      Stored([bench \in Range(benchmarks.benchmarkNames) |->
        IF PredictedAnew(benchmarks.modelFromName[model][bench])
        THEN Repredicted(benchmarks.modelFromName[model][bench],
               predictMissingScore(benchmarks.modelFromName[model], bench,
                                   benchRegression[bench]))
        ELSE benchmarks.modelFromName[model][bench]])])]

\* One iteration: a model per benchmark is trained on the current table, then
\* every cell whose source is 'Multivariate regression' is predicted anew.
RegressionIteration(benchmarks) ==
  PredictedTable(benchmarks,
    Stored([bench \in Range(benchmarks.benchmarkNames) |->
             trainModelForBenchmark(benchmarks, bench)]))

RECURSIVE RegressionIterations(_, _)
RegressionIterations(benchmarks, numIterations) ==
  IF numIterations <= 0 THEN benchmarks
  ELSE RegressionIteration(RegressionIterations(benchmarks, numIterations - 1))

RegressedFrom(indexed, numIterations) ==
  unindexBenchmarkData(
    RegressionIterations(
      InitializeMissing(indexed, computeAllBenchmarks(indexed).modelFromName),
      numIterations))

\* estimateMissingBenchmarks(benchmarks, numIterations) of lib/score-prediction.js
estimateMissingBenchmarksMultivariate(benchmarks, numIterations) ==
  RegressedFrom(indexBenchmarkData(benchmarks, MultivariateSource), numIterations)

(***************************************************************************)
(* lib/score-prediction-multivariate-gradient-descent.js                   *)
(*                                                                         *)
(* modelGraph and parameterGraph are kept as one sequence of leaf nodes:   *)
(* the score node of every model (in key order) on every benchmark, then   *)
(* for every benchmark its alpha and its betas.  A copy of the graphs is   *)
(* the same sequence.                                                      *)
(***************************************************************************)
DescentSource == "Multivariate gradient descent"

\* The position of modelGraph[modelNames[i]][benchmarkNames[j]].
ScoreAt(indexedData, i, j) == (i - 1) * Len(indexedData.benchmarkNames) + j

\* The position of parameterGraph[benchmarkNames[k]].alpha.
AlphaAt(indexedData, k) ==
  (Len(indexedData.modelNames) + k - 1) * Len(indexedData.benchmarkNames) + 1

\* The position of parameterGraph[benchmarkNames[k]].betas[benchmarkNames[j]].
BetaAt(indexedData, k, j) == AlphaAt(indexedData, k) + (IF j < k THEN j ELSE j - 1)

\* The table where every cell without score takes the score of the weighed
\* bivariate estimate.
WithInitialScores(indexedData, initialScores) ==
  [indexedData EXCEPT !.modelFromName =
    Stored([modelName \in Range(indexedData.modelNames) |->
      Stored([benchName \in Range(indexedData.benchmarkNames) |->
        IF indexedData.modelFromName[modelName][benchName].score = Null
        THEN [indexedData.modelFromName[modelName][benchName] EXCEPT !.score =
                initialScores.modelFromName[modelName][benchName].score]
        ELSE indexedData.modelFromName[modelName][benchName]])])]

\* The table where every cell still without score takes its prediction.
WithPredictedScores(initializedData, regressionResult) ==
  [initializedData EXCEPT !.modelFromName =
    Stored([modelName \in Range(initializedData.modelNames) |->
      Stored([benchName \in Range(initializedData.benchmarkNames) |->
        IF initializedData.modelFromName[modelName][benchName].score = Null
        THEN [initializedData.modelFromName[modelName][benchName] EXCEPT !.score =
                predictMissingScore(initializedData.modelFromName[modelName],
                                    benchName, regressionResult[benchName]).prediction]
        ELSE initializedData.modelFromName[modelName][benchName]])])]

ParametersAndScores(initializedData, regressionResult) ==
  [parameters |->
     Stored([benchName \in Range(initializedData.benchmarkNames) |->
       [alpha |-> regressionResult[benchName].bias,
        betas |-> regressionResult[benchName].coefficients,
        featureBenches |-> regressionResult[benchName].featureBenches]]),
   scores |-> WithPredictedScores(initializedData, regressionResult)]

InitialRegression(initializedData) ==
  ParametersAndScores(initializedData,
    Stored([benchName \in Range(initializedData.benchmarkNames) |->
             trainModelForBenchmark(initializedData, benchName)]))

\* getInitialParametersAndScores(indexedData): [parameters, scores].
getInitialParametersAndScores(indexedData) ==
  InitialRegression(WithInitialScores(indexedData, computeAllBenchmarks(indexedData)))

\* `initialParams.betas[otherBench] || 0`
BetaOrZero(betaValue) == IF Falsy(betaValue) THEN Zero ELSE betaValue

InitialBetaAmong(initialParams, at) ==
  IF at = {} THEN Zero ELSE BetaOrZero(initialParams.betas[CHOOSE i \in at : TRUE])

InitialBeta(initialParams, otherBench) ==
  InitialBetaAmong(initialParams,
    {i \in 1..Len(initialParams.betas) : initialParams.featureBenches[i] = otherBench})

\* buildComputationalGraph: a Constant for a cell with a score, a Variable for
\* a cell without, a Variable for every alpha and beta.
buildComputationalGraph(indexedData, initialScores, initialParameters) ==
  LET nb == Len(indexedData.benchmarkNames)
      nm == Len(indexedData.modelNames)
  IN  Stored([q \in 1..((nm + nb) * nb) |->
        LET row == ((q - 1) \div nb) + 1
            col == ((q - 1) % nb) + 1
        IN  IF row <= nm
            THEN LET modelName == indexedData.modelNames[row]
                     benchName == indexedData.benchmarkNames[col]
                     bench == indexedData.modelFromName[modelName][benchName]
                 IN  IF NotNull(bench.score) THEN Constant(bench.score)
                     ELSE Variable(initialScores.modelFromName[modelName][benchName].score)
            ELSE LET initialParams == initialParameters[indexedData.benchmarkNames[row - nm]]
                     otherBench ==
                       indexedData.benchmarkNames[IF col - 1 < row - nm THEN col - 1 ELSE col]
                 IN  IF col = 1 THEN Variable(initialParams.alpha)
                     ELSE Variable(InitialBeta(initialParams, otherBench))])

\* The model and the benchmark of the q-th cell.
CellRow(indexedData, q) == ((q - 1) \div Len(indexedData.benchmarkNames)) + 1
CellColumn(indexedData, q) == ((q - 1) % Len(indexedData.benchmarkNames)) + 1
CellAt(indexedData, q) ==
  indexedData.modelFromName[indexedData.modelNames[CellRow(indexedData, q)]]
                           [indexedData.benchmarkNames[CellColumn(indexedData, q)]]

\* computePredictedScore(model, targetBench, parameters) for the model at i
\* and the benchmark at k, from the beta of the benchmark at j on: [nodes, at].
RECURSIVE PredictionFrom(_, _, _, _, _, _)
RECURSIVE PredictionAfter(_, _, _, _, _)
PredictionFrom(nodes, prediction, indexedData, i, k, j) ==
  IF j > Len(indexedData.benchmarkNames) \/ prediction > Len(nodes)
  THEN [nodes |-> nodes, at |-> prediction]
  ELSE IF j = k THEN PredictionFrom(nodes, prediction, indexedData, i, k, j + 1)
  ELSE PredictionAfter(
         AddLast(multiply(nodes, BetaAt(indexedData, k, j), ScoreAt(indexedData, i, j)),
                 prediction),
         indexedData, i, k, j + 1)

\* The prediction is the last node.
PredictionAfter(nodes, indexedData, i, k, j) ==
  PredictionFrom(nodes, Len(nodes), indexedData, i, k, j)

computePredictedScore(nodes, indexedData, i, k) ==
  PredictionFrom(nodes, AlphaAt(indexedData, k), indexedData, i, k, 1)

\* `this.power(2)` of the last node.
SquareLast(nodes) == power(nodes, Len(nodes), 2)

\* `this.subtract(operand)` of the last node.
SubtractFromLast(nodes, operand) == subtract(nodes, Len(nodes), operand)

\* The loop of computeMultivariateLoss from the q-th cell on: [nodes, at].
RECURSIVE LossFrom(_, _, _, _)
RECURSIVE LossAfter(_, _, _)
RECURSIVE LossWith(_, _, _, _)
LossFrom(nodes, loss, indexedData, q) ==
  IF q > Len(indexedData.modelNames) * Len(indexedData.benchmarkNames) \/ loss > Len(nodes)
  THEN [nodes |-> nodes, at |-> loss]
  ELSE IF NotNull(CellAt(indexedData, q).score)
  THEN LossWith(computePredictedScore(nodes, indexedData, CellRow(indexedData, q),
                                      CellColumn(indexedData, q)),
                loss, indexedData, q)
  ELSE LossFrom(nodes, loss, indexedData, q + 1)

\* `loss = loss.add(modelBench.subtract(predictedScore).power(2))`
LossWith(predictedScore, loss, indexedData, q) ==
  LossAfter(
    AddLast(SquareLast(subtract(predictedScore.nodes,
                                ScoreAt(indexedData, CellRow(indexedData, q),
                                        CellColumn(indexedData, q)),
                                predictedScore.at)),
            loss),
    indexedData, q + 1)

\* The loss is the last node.
LossAfter(nodes, indexedData, q) == LossFrom(nodes, Len(nodes), indexedData, q)

\* computeMultivariateLoss(modelGraph, parameterGraph, indexedData): the graph
\* of the loss over the leaves, and the position of the loss in it.
computeMultivariateLoss(variables, indexedData) ==
  LossAfter(Append(variables, Constant(Zero)), indexedData, 1)

\* The leaves after loss.computeGradients().
Graded(variables, graph) == SubSeq(computeGradients(graph.nodes, graph.at), 1, Len(variables))

\* The norm of the gradient over the Variable nodes.
GradientNorm(variables) ==
  MathSqrt(SumSeq([q \in 1..Len(variables) |->
                    IF variables[q].operation = "variable"
                    THEN Mul(variables[q].gradient, variables[q].gradient) ELSE Zero]))

NormThreshold == Sci(1, 1, -10)

\* Mutant: no norm is too small.
NormNeverTooSmall(norm) == FALSE

\* `norm < 1e-10`
NormTooSmall(norm) == Less(norm, NormThreshold)

\* The value of stepSize after the given number of halvings of 1.
stepSize(halvings) == Div(One, Num(2 ^ halvings))

\* The Variable nodes moved by lr times their gradient.
Moved(variables, lr) ==
  Stored([q \in 1..Len(variables) |->
    IF variables[q].operation = "variable"
    THEN [variables[q] EXCEPT !.value = Sub(@, Mul(lr, variables[q].gradient))]
    ELSE variables[q]])

\* gradientDescent(variables, stepSize)
StepAlong(variables, halvings, norm) ==
  IF NormTooSmall(norm) THEN variables
  ELSE Moved(variables, Div(stepSize(halvings), norm))

gradientDescent(variables, halvings) ==
  StepAlong(variables, halvings, GradientNorm(variables))

\* computePredictedScoreValue(model, targetBench, parameters)
computePredictedScoreValue(variables, indexedData, i, k) ==
  Add(variables[AlphaAt(indexedData, k)].value,
      SumSeq([j \in 1..Len(indexedData.benchmarkNames) |->
               IF j = k THEN Zero
               ELSE Mul(variables[BetaAt(indexedData, k, j)].value,
                        variables[ScoreAt(indexedData, i, j)].value)]))

\* updatePredictedScores, from the q-th cell on: the cells without original
\* score take their predicted value one after the other.
RECURSIVE updatePredictedScores(_, _, _)
updatePredictedScores(variables, indexedData, q) ==
  IF \/ q > Len(variables)
     \/ q > Len(indexedData.modelNames) * Len(indexedData.benchmarkNames)
  THEN variables
  ELSE updatePredictedScores(
         IF CellAt(indexedData, q).score = Null
         THEN [variables EXCEPT ![q].value =
                 computePredictedScoreValue(variables, indexedData,
                                            CellRow(indexedData, q),
                                            CellColumn(indexedData, q))]
         ELSE variables, indexedData, q + 1)

\* extractFinalScores(modelGraph, parameterGraph, indexedData)
extractFinalScores(variables, indexedData) ==
  unindexBenchmarkData(
    [indexedData EXCEPT !.modelFromName =
      Stored([modelName \in Range(indexedData.modelNames) |->
        Stored([benchName \in Range(indexedData.benchmarkNames) |->
          LET i == CHOOSE i \in 1..Len(indexedData.modelNames) :
                     indexedData.modelNames[i] = modelName
              j == CHOOSE j \in 1..Len(indexedData.benchmarkNames) :
                     indexedData.benchmarkNames[j] = benchName
          IN  [indexedData.modelFromName[modelName][benchName] EXCEPT
                 !.score = variables[ScoreAt(indexedData, i, j)].value]])])])

(***************************************************************************)
(* lib/score-prediction-consolidated-bivariate-gradient-descent.js         *)
(*                                                                         *)
(* benchmarksGraph and scoreEstimators are kept as one sequence of leaf    *)
(* nodes: the score nodes as above, then a, b and w of                     *)
(* scoreEstimators[bj][bk] for every bj and bk.                            *)
(***************************************************************************)
ConsolidatedSource == "Bivariate regression"

\* The position of a (c = 1), b (c = 2) or w (c = 3) of
\* scoreEstimators[benchmarkNames[bj]][benchmarkNames[bk]].
EstimatorAt(indexedData, bj, bk, c) ==
  Len(indexedData.modelNames) * Len(indexedData.benchmarkNames)
    + ((bj - 1) * Len(indexedData.benchmarkNames) + (bk - 1)) * 3 + c

\* calculateBenchmarkEstimators of this file: result[bj][bk] is the line
\* predicting bk from bj.
calculateBenchmarkEstimatorsConsolidated(indexedData) ==
  Stored([bj \in Range(indexedData.benchmarkNames) |->
    Stored([bk \in Range(indexedData.benchmarkNames) |-> Estimator(indexedData, bk, bj)])])

\* `den !== 0 ? meanK + num / den : meanK`
ClosedForm(meanK, num, den) == IF den # Zero THEN Add(meanK, Div(num, den)) ELSE meanK

ClosedFormOver(indexedData, estimators, means, modelName, benchName, bjs) ==
  ClosedForm(means[benchName],
    SumSeq([x \in 1..Len(bjs) |->
             Mul(Add(estimators[bjs[x]][benchName].a, estimators[benchName][bjs[x]].a),
                 Sub(ScoreOf(indexedData, modelName, bjs[x]), means[bjs[x]]))]),
    SumSeq([x \in 1..Len(bjs) |->
             Add(One, Mul(estimators[benchName][bjs[x]].a,
                          estimators[benchName][bjs[x]].a))]))

\* The estimate computeAllBenchmarks of this file gives to a missing cell.
ClosedFormEstimate(indexedData, estimators, means, modelName, benchName) ==
  ClosedFormOver(indexedData, estimators, means, modelName, benchName,
    SelectSeq(indexedData.benchmarkNames,
              LAMBDA bj : bj # benchName /\ NotNull(ScoreOf(indexedData, modelName, bj))))

ClosedFormTable(indexedData, estimators, means) ==
  [indexedData EXCEPT !.modelFromName =
    Stored([modelName \in Range(indexedData.modelNames) |->
      Stored([benchName \in Range(indexedData.benchmarkNames) |->
        IF NotNull(indexedData.modelFromName[modelName][benchName].score)
        THEN indexedData.modelFromName[modelName][benchName]
        ELSE [name |-> benchName,
              score |-> ClosedFormEstimate(indexedData, estimators, means,
                                           modelName, benchName),
              source |-> ConsolidatedSource, stdDev |-> Zero]])])]

\* computeAllBenchmarks of this file.
computeAllBenchmarksConsolidated(indexedData) ==
  ClosedFormTable(indexedData, calculateBenchmarkEstimatorsConsolidated(indexedData),
                  calculateMeansByBenchmark(indexedData))

\* The Variable of a (r % 3 = 0), b (1) or w (2) of the r-th estimator leaf.
EstimatorLeaf(indexedData, initScoreEstimators, r) ==
  CASE r % 3 = 0 ->
         Variable(initScoreEstimators[indexedData.benchmarkNames[CellRow(indexedData, (r \div 3) + 1)]]
                                     [indexedData.benchmarkNames[CellColumn(indexedData, (r \div 3) + 1)]].a)
    [] r % 3 = 1 ->
         Variable(initScoreEstimators[indexedData.benchmarkNames[CellRow(indexedData, (r \div 3) + 1)]]
                                     [indexedData.benchmarkNames[CellColumn(indexedData, (r \div 3) + 1)]].b)
    [] OTHER -> Variable(One)

\* The Constant or Variable of the q-th score.
ScoreLeaf(bench, estimate) ==
  IF NotNull(bench.score) THEN Constant(bench.score) ELSE Variable(estimate.score)

GraphOver(indexedData, initScoreEstimates, initScoreEstimators, cells) ==
  Stored([q \in 1..(cells + 3 * Len(indexedData.benchmarkNames)
                                * Len(indexedData.benchmarkNames)) |->
    IF q <= cells
    THEN ScoreLeaf(CellAt(indexedData, q), CellAt(initScoreEstimates, q))
    ELSE EstimatorLeaf(indexedData, initScoreEstimators, q - cells - 1)])

\* benchmarksGraph and scoreEstimators as estimateMissingBenchmarks builds them.
ConsolidatedGraph(indexedData) ==
  GraphOver(indexedData, computeAllBenchmarksConsolidated(indexedData),
            calculateBenchmarkEstimatorsConsolidated(indexedData),
            Len(indexedData.modelNames) * Len(indexedData.benchmarkNames))

\* `this.add(operand)` of the last node.
AddToLast(nodes, operand) == add(nodes, Len(nodes), operand)

\* The inner loop of squaredMultiPredictionErrorLoss for the score bj of the
\* model at i, from bk on: [nodes, weightedSum, weightTotal].
RECURSIVE WeighFrom(_, _, _, _, _, _, _)
RECURSIVE WeighAfter(_, _, _, _, _)
WeighFrom(nodes, weightedSum, weightTotal, indexedData, i, bj, bk) ==
  IF bk > Len(indexedData.benchmarkNames) \/ weightTotal > Len(nodes)
  THEN [nodes |-> nodes, weightedSum |-> weightedSum, weightTotal |-> weightTotal]
  ELSE IF bk = bj
  THEN WeighFrom(nodes, weightedSum, weightTotal, indexedData, i, bj, bk + 1)
  ELSE WeighAfter(
         \* weightTotal = weightTotal.add(w)
         add(\* weightedSum = weightedSum.add(pred.multiply(w))
             AddLast(MultiplyByLast(
                       \* pred = a.multiply(sbk).add(b)
                       AddToLast(multiply(nodes, EstimatorAt(indexedData, bk, bj, 1),
                                          ScoreAt(indexedData, i, bk)),
                                 EstimatorAt(indexedData, bk, bj, 2)),
                       EstimatorAt(indexedData, bk, bj, 3)),
                     weightedSum),
             weightTotal, EstimatorAt(indexedData, bk, bj, 3)),
         indexedData, i, bj, bk + 1)

\* weightedSum and weightTotal are the last two nodes.
WeighAfter(nodes, indexedData, i, bj, bk) ==
  WeighFrom(nodes, Len(nodes) - 1, Len(nodes), indexedData, i, bj, bk)

\* The loops of squaredMultiPredictionErrorLoss from the q-th score on.
RECURSIVE MultiLossFrom(_, _, _, _)
RECURSIVE MultiLossAfter(_, _, _)
RECURSIVE MultiLossWith(_, _, _, _)
MultiLossFrom(nodes, loss, indexedData, q) ==
  IF q > Len(indexedData.modelNames) * Len(indexedData.benchmarkNames) \/ loss > Len(nodes)
  THEN [nodes |-> nodes, at |-> loss]
  ELSE IF nodes[q].operation = "variable"
  THEN MultiLossFrom(nodes, loss, indexedData, q + 1)
  ELSE MultiLossWith(
         WeighAfter(Append(Append(nodes, Constant(Zero)), Constant(Zero)), indexedData,
                    CellRow(indexedData, q), CellColumn(indexedData, q), 1),
         loss, indexedData, q)

\* `if (weightTotal.value === 0) continue;` then
\* `loss = loss.add(weightedSum.divide(weightTotal).subtract(sbj).power(2))`
MultiLossWith(weighed, loss, indexedData, q) ==
  IF weighed.nodes[weighed.weightTotal].value = Zero
  THEN MultiLossFrom(weighed.nodes, loss, indexedData, q + 1)
  ELSE MultiLossAfter(
         AddLast(SquareLast(SubtractFromLast(
                   divide(weighed.nodes, weighed.weightedSum, weighed.weightTotal), q)),
                 loss),
         indexedData, q + 1)

\* The loss is the last node.
MultiLossAfter(nodes, indexedData, q) == MultiLossFrom(nodes, Len(nodes), indexedData, q)

squaredMultiPredictionErrorLoss(variables, indexedData) ==
  MultiLossAfter(Append(variables, Constant(Zero)), indexedData, 1)

\* `maxStepSize * (1 - progress) + minStepSize * progress`
maxStepSize == Sci(1, 1, -1)
minStepSize == Sci(1, 1, -6)
StepSizeAt(progress) ==
  Add(Mul(maxStepSize, Sub(One, progress)), Mul(minStepSize, progress))

\* Mutant: the step size of the first iteration at every iteration.
UnscheduledStepSize(i, iterations) == StepSizeAt(Zero)

\* `stepSize` of iteration i: progress = i / iterations.
ScheduledStepSize(i, iterations) == StepSizeAt(Rat(i, iterations))

\* Mutant: lr is computed while it is undefined and halved afterwards.
HalvedRate(lr, step, norm) == IF lr = Null THEN Div(step, norm) ELSE Div(lr, Num(2))

\* `lr = stepSize / norm`: the module-level lr after the assignment, whatever
\* it held before, and whatever the norm.
AssignedRate(lr, step, norm) == Div(step, norm)

\* The variables moved by lr, and lr as the call leaves it.
Descended(variables, lr) == [variables |-> Moved(variables, lr), lr |-> lr]

\* gradientDescent(variables, stepSize) of this file, called when the
\* module-level lr holds the given value.
gradientDescentConsolidated(variables, step, lr) ==
  Descended(variables, AssignedRate(lr, step, GradientNorm(variables)))

(***************************************************************************)
(* State                                                                   *)
(***************************************************************************)
VARIABLES
  lin,  \* a caller of gaussianElimination / invertMatrix and what it got back
  ag,   \* a computational graph under construction and its backward passes
  tb,   \* a caller of the table functions: its input table and what it got back
  gd    \* a run of performGradientDescent, step by step

vars == <<lin, ag, tb, gd>>

\* The components that take no part in a run.
LinIdle == lin = [pc |-> "off"]
AgIdle == ag = [pc |-> "off"]
TbIdle == tb = [pc |-> "off"]
GdIdle == gd = [pc |-> "off"]

(***************************************************************************)
(* Callers of the linear solver                                            *)
(***************************************************************************)
\* Largest magnitude of an integer matrix entry drawn for the solver.
MaxEntry == 2
\* Entries of magnitude k * 10^-TinyExp lie below the pivot threshold.
TinyExp == 51

Entries == (0 - MaxEntry)..MaxEntry
Scales == {0, 0 - TinyExp}

Matrices2 ==
  {<<<<a, b>>, <<c, d>>>> : a \in Entries, b \in Entries, c \in Entries, d \in Entries}

Rows3 == {<<0, 0, 1>>, <<0, 1, 0>>, <<1, 0, 0>>, <<1, 1, 0>>, <<0, 1, 1>>,
          <<1, 1, 1>>, <<1, 2, 3>>, <<2, -1, 0>>}

Matrices3 == {<<r1, r2, r3>> : r1 \in Rows3, r2 \in Rows3, r3 \in Rows3}

Matrices1 == {<<<<a>>>> : a \in Entries}

Rhs(n) == {[i \in 1..n |-> Num(2)]} \cup {IdentityColumn(n, c) : c \in 1..n}

\* The integer matrix m with every entry multiplied by 10^e.
Scaled(m, e) == [i \in 1..Len(m) |-> [j \in 1..Len(m[i]) |-> Sci(m[i][j], 1, e)]]

NoResult == [isNull |-> TRUE, x |-> <<>>]

LinInit ==
  /\ AgIdle /\ TbIdle /\ GdIdle
  /\ \E m \in Matrices1 \cup Matrices2 \cup Matrices3, e \in Scales :
    \E b \in Rhs(Len(m)) :
      lin = [pc |-> "ready", matrix |-> Scaled(m, e), rhs |-> b,
             A |-> Scaled(m, e), b |-> b, solved |-> NoResult, inverse |-> NoResult]

\* x = gaussianElimination(A, b) on the caller's own arrays.
Solve ==
  /\ lin.pc = "ready"
  /\ \E r \in {gaussianElimination(lin.A, lin.b)} :
       lin' = [lin EXCEPT !.pc = "solved", !.A = r.A, !.b = r.b,
                          !.solved = [isNull |-> r.isNull, x |-> r.x]]

\* inverse = invertMatrix(matrix)
Invert ==
  /\ lin.pc = "ready"
  /\ \E r \in {invertMatrix(lin.matrix)} :
       lin' = [lin EXCEPT !.pc = "inverted",
                          !.inverse = [isNull |-> r.isNull, x |-> r.m]]

LinNext == (Solve \/ Invert) /\ UNCHANGED <<ag, tb, gd>>

SpecLinAlg == LinInit /\ [][LinNext]_vars

(***************************************************************************)
(* Reference linear algebra for the statements about the solver           *)
(***************************************************************************)
\* The matrix m without row r and column c.
Minor(m, r, c) ==
  [i \in 1..(Len(m) - 1) |->
    [j \in 1..(Len(m) - 1) |->
      m[IF i < r THEN i ELSE i + 1][IF j < c THEN j ELSE j + 1]]]

\* Determinant by cofactor expansion along the first row.
RECURSIVE Det(_)
RECURSIVE DetTerms(_, _)
DetTerms(m, c) ==
  IF c > Len(m) THEN Zero
  ELSE Add(Mul(Mul(Num(IF c % 2 = 1 THEN 1 ELSE -1), m[1][c]), Det(Minor(m, 1, c))),
           DetTerms(m, c + 1))
Det(m) == IF Len(m) = 0 THEN One ELSE DetTerms(m, 1)

RECURSIVE DotFrom(_, _, _, _, _)
DotFrom(R, M, i, j, k) ==
  IF k > Len(M) THEN Zero ELSE Add(Mul(R[i][k], M[k][j]), DotFrom(R, M, i, j, k + 1))

MatMul(R, M) == [i \in 1..Len(R) |-> [j \in 1..Len(M) |-> DotFrom(R, M, i, j, 1)]]

Identity(n) == [i \in 1..n |-> IdentityColumn(n, i)]

\* Some diagonal entry of the array A, as elimination left it, is below the
\* pivot threshold.
SmallPivotLeft(A) == \E i \in 1..Len(A) : SingularPivot(A[i][i])

InverseOfEveryInvertible ==
  (lin.pc = "inverted" /\ Det(lin.matrix) # Zero) =>
    /\ ~lin.inverse.isNull
    /\ MatMul(lin.inverse.x, lin.matrix) = Identity(Len(lin.matrix))

IntegerMatrix(m) ==
  \A i \in 1..Len(m) : \A j \in 1..Len(m) : m[i][j].d = 1 /\ m[i][j].e = 0

\* C6 amended: for an invertible M, invertMatrix returns null only when the
\* elimination met a pivot below the threshold 1e-50, and otherwise a matrix R
\* with R.M = I; it meets no such pivot on a matrix of small integers.
InverseRoundTrip ==
  (lin.pc = "inverted" /\ Det(lin.matrix) # Zero) =>
    /\ IF lin.inverse.isNull
       THEN SmallPivotLeft(
              ForwardEliminate([A |-> lin.matrix,
                                b |-> Stored(IdentityColumn(Len(lin.matrix), 1))], 1).A)
       ELSE MatMul(lin.inverse.x, lin.matrix) = Identity(Len(lin.matrix))
    /\ IntegerMatrix(lin.matrix) => ~lin.inverse.isNull

\* C6 witness: a matrix with a zero on its diagonal, which needs a row swap,
\* has been inverted.
InvertedWithRowSwap ==
  /\ lin.pc = "inverted"
  /\ lin.matrix = Scaled(<<<<0, 1>>, <<2, 1>>>>, 0)
  /\ ~lin.inverse.isNull
  /\ lin.inverse.x = <<<<Rat(-1, 2), Rat(1, 2)>>, <<One, Zero>>>>


(***************************************************************************)
(* A user of the autodiff engine: builds a graph, then runs backward       *)
(* passes                                                                  *)
(***************************************************************************)
\* Operations (add, multiply, power) applied when building a graph.
MaxOps == 2
\* Backward passes run on one graph.
MaxPasses == 2

\* Values of the two leaf variables: the pairs used by the autograd tests.
LeafPairs == {<<3, 4>>, <<10, 2>>}
Exponents == {2, -1}

AgInit ==
  /\ LinIdle /\ TbIdle /\ GdIdle
  /\ \E p \in LeafPairs :
       ag = [pc |-> "build", nodes |-> <<Variable(Num(p[1])), Variable(Num(p[2]))>>,
             ops |-> 0, root |-> 0, passes |-> 0, previous |-> <<>>]

Building == ag.pc = "build" /\ ag.ops < MaxOps

AgAdd ==
  /\ Building
  /\ \E i \in 1..Len(ag.nodes), j \in 1..Len(ag.nodes) :
       ag' = [ag EXCEPT !.nodes = add(ag.nodes, i, j), !.ops = @ + 1]

AgMultiply ==
  /\ Building
  /\ \E i \in 1..Len(ag.nodes), j \in 1..Len(ag.nodes) :
       ag' = [ag EXCEPT !.nodes = multiply(ag.nodes, i, j), !.ops = @ + 1]

AgPower ==
  /\ Building
  /\ \E i \in 1..Len(ag.nodes), e \in Exponents :
       ag' = [ag EXCEPT !.nodes = power(ag.nodes, i, e), !.ops = @ + 1]

\* root.computeGradients(); the graph as it was before the call is kept for
\* the statements about successive passes.
AgComputeGradients ==
  /\ ag.passes < MaxPasses
  /\ \E root \in 1..Len(ag.nodes) :
       ag' = [ag EXCEPT !.pc = "graded", !.root = root, !.passes = @ + 1,
                        !.previous = ag.nodes,
                        !.nodes = computeGradients(ag.nodes, root)]

AgNext == (AgAdd \/ AgMultiply \/ AgPower \/ AgComputeGradients) /\ UNCHANGED <<lin, tb, gd>>

SpecAutograd == AgInit /\ [][AgNext]_vars

(***************************************************************************)
(* Reference derivative for the statements about the engine               *)
(***************************************************************************)
\* d(node p)/d(its i-th operand), from the definitions of +, * and ^.
LocalPartial(nodes, p, i) ==
  LET this == nodes[p]
      base == nodes[this.operands[1]].value
      exponent == nodes[this.operands[2]].value
  IN  CASE this.operation = "add" -> One
        [] this.operation = "multiply" -> nodes[this.operands[3 - i]].value
        [] this.operation = "power" /\ i = 1 ->
             Mul(exponent, MathPow(base, exponent.n - 1))
        [] this.operation = "power" /\ i = 2 ->
             Mul(MathPow(base, exponent.n), MathLog(base))

\* d(root)/d(n): over every node p above n and every position at which n is an
\* operand of p, d(root)/d(p) * d(p)/d(n), summed.
RECURSIVE Partial(_, _, _)
RECURSIVE PartialVia(_, _, _, _)
PartialVia(nodes, root, n, p) ==
  IF p > root THEN Zero
  ELSE LET ops == nodes[p].operands
           here == SumSeq([i \in 1..Len(ops) |->
                            IF ops[i] = n
                            THEN Mul(Partial(nodes, root, p), LocalPartial(nodes, p, i))
                            ELSE Zero])
       IN  Add(here, PartialVia(nodes, root, n, p + 1))
Partial(nodes, root, n) ==
  IF n = root THEN One ELSE IF n > root THEN Zero ELSE PartialVia(nodes, root, n, n + 1)

RECURSIVE Reachable(_, _, _)
Reachable(nodes, root, n) ==
  \/ n = root
  \/ \E i \in 1..Len(nodes[root].operands) : Reachable(nodes, nodes[root].operands[i], n)

\* C3: after root.computeGradients() every node reachable from root holds
\* d(root)/d(node), shared nodes included.
GradientsArePartials ==
  ag.pc = "graded" =>
    \A n \in 1..Len(ag.nodes) :
      Reachable(ag.nodes, ag.root, n) => ag.nodes[n].gradient = Partial(ag.nodes, ag.root, n)

\* The spec's example f = (x + y) * y at x = 3, y = 4 gives df/dx = 4, df/dy = 11.
SpecExampleGradients ==
  (/\ ag.pc = "graded" /\ ag.root = 4 /\ Len(ag.nodes) = 4
   /\ ag.nodes[1].value = Num(3) /\ ag.nodes[2].value = Num(4)
   /\ ag.nodes[3].operation = "add" /\ ag.nodes[3].operands = <<1, 2>>
   /\ ag.nodes[4].operation = "multiply" /\ ag.nodes[4].operands = <<3, 2>>)
  => (ag.nodes[1].gradient = Num(4) /\ ag.nodes[2].gradient = Num(11))

(***************************************************************************)
(* A caller of the estimators: one input table, one call                   *)
(***************************************************************************)
\* The largest iteration count passed to an estimateMissingBenchmarks.
MaxIterations == 2

Observation(name, score, source, stdDev) ==
  [name |-> name, score |-> score, source |-> source, stdDev |-> stdDev]

\* The observations of one input entry.  X and Y lie on y = 2x + 1 in rows 1,
\* 2 and 7; row 4 has a negative score and a cell given with a null score;
\* row 6 has two observations of Y; row 7 carries the sources that the
\* estimators give to their own estimates; row 8 carries its own stdDev; rows
\* 3, 9 and 10 make the tables of a single benchmark; row 11 has a cell given
\* with a null score under the source of the multivariate regression.
Row1 == <<Observation("X", Num(1), "", Null), Observation("Y", Num(3), "", Null)>>
Row2 == <<Observation("X", Num(2), "paper", Null), Observation("Y", Num(5), "paper", Null)>>
Row3 == <<Observation("X", Num(1), "Original", Zero)>>
Row4 == <<Observation("X", Num(-2), "Original", Zero), Observation("Y", Null, "Original", Zero)>>
Row5 == <<Observation("Y", Num(3), "", Null), Observation("Z", Num(-1), "", Null)>>
Row6 == <<Observation("X", Num(1), "", Null), Observation("Y", Num(3), "paper", Null),
          Observation("Y", Num(5), "blog", Null)>>
Row7 == <<Observation("X", Zero, WeighedSource, Zero),
          Observation("Y", Num(1), MultivariateSource, Zero)>>
Row8 == <<Observation("X", Zero, "paper", Num(2)), Observation("Z", Num(4), "paper", Null)>>
Row9 == <<>>
Row10 == <<Observation("X", Num(4), "paper", Null)>>
Row11 == <<Observation("X", Num(3), "", Null), Observation("Y", Null, MultivariateSource, Null)>>

Rows == <<Row1, Row2, Row3, Row4, Row5, Row6, Row7, Row8, Row9, Row10, Row11>>

\* The rows of the input entries: none, one, two in either order, or three of
\* which the later ones come no earlier in Rows.
RowChoices ==
  {<<>>} \cup {<<Rows[i]>> : i \in 1..Len(Rows)}
         \cup {<<Rows[i], Rows[j]>> : i \in 1..Len(Rows), j \in 1..Len(Rows)}
         \cup {<<Rows[c[1]], Rows[c[2]], Rows[c[3]]>> :
                 c \in {c \in (1..Len(Rows)) \X (1..Len(Rows)) \X (1..Len(Rows)) :
                          c[1] <= c[2] /\ c[2] <= c[3]}}

\* The names of the entries of a table: all different, or the third entry
\* continues the first model.
NamePatterns == {<<"m1", "m2", "m3">>, <<"m1", "m2", "m1">>}

TableOf(rows, names) ==
  [models |-> [i \in 1..Len(rows) |-> [name |-> names[i], benchmarks |-> rows[i]]]]

Tables == {TableOf(rows, names) : rows \in RowChoices, names \in NamePatterns}

\* A table of four entries: three models with a score on both benchmarks, the
\* scores not on one line, and a model with a score on one of them.
LargerTable == TableOf(<<Row1, Row2, Row6, Row4>>, <<"m1", "m2", "m3", "m4">>)

NoTable == [models |-> <<>>]

\* No table has been indexed.
NoIndex == [benchmarkNames |-> <<>>, modelNames |-> <<>>, modelFromName |-> <<>>]

\* No optimizer has been called.
GdReady == gd = [pc |-> "ready"]

TbInitOn(tables) ==
  /\ LinIdle /\ AgIdle /\ GdReady
  /\ \E t \in tables :
       tb = [pc |-> "ready", input |-> t, iterations |-> 0, bench |-> "",
             output |-> NoTable, calls |-> 1, again |-> NoTable, indexed |-> NoIndex,
             estimators |-> <<>>,
             regression |-> UntrainedModel(<<>>)]

TbInit == TbInitOn(Tables)

\* The iteration counts explored on a table: the exact fractions of a table of
\* more models, or of more benchmarks, outgrow the integers of the checker
\* after fewer passes.
MaxModelsRepeated == 2
MaxBenchmarksIterated == 2

CombinerIterations(table) ==
  IF Len(indexBenchmarkData(table, "Bivariate regression").modelNames) <= MaxModelsRepeated
  THEN 0..MaxIterations ELSE 0..(MaxIterations - 1)

RegressorIterations(table) ==
  IF Len(indexBenchmarkData(table, MultivariateSource).benchmarkNames) <= MaxBenchmarksIterated
  THEN 0..MaxIterations ELSE {0}

\* The source each file's indexBenchmarkData gives to a cell without
\* observation.
MissingSources == {"Bivariate regression", MultivariateSource, DescentSource}

\* indexed = indexBenchmarkData(input)
Index ==
  /\ tb.pc = "ready" /\ GdReady
  /\ \E missingSource \in MissingSources :
       tb' = [tb EXCEPT !.pc = "indexed",
                        !.indexed = indexBenchmarkData(tb.input, missingSource)]

\* result = estimateMissingBenchmarks(input, n) of the combiner
Combine ==
  /\ tb.pc = "ready" /\ GdReady
  /\ \E n \in CombinerIterations(tb.input) :
       tb' = [tb EXCEPT !.pc = "combined", !.iterations = n,
                        !.output = estimateMissingBenchmarks(tb.input, n)]

\* result = estimateMissingBenchmarks(input, n) of the multivariate regression
Regress ==
  /\ tb.pc = "ready" /\ GdReady
  /\ \E n \in RegressorIterations(tb.input) :
       tb' = [tb EXCEPT !.pc = "regressed", !.iterations = n,
                        !.output = estimateMissingBenchmarksMultivariate(tb.input, n)]

\* estimators = calculateBenchmarkEstimators(indexedData)
FitPairs ==
  /\ tb.pc = "ready" /\ GdReady
  /\ tb' = [tb EXCEPT !.pc = "paired",
                      !.estimators = calculateBenchmarkEstimators(
                                       indexBenchmarkData(tb.input, "Bivariate regression"))]

\* Every cell of the indexed table has a score.
Complete(indexedData) ==
  \A m \in Range(indexedData.modelNames) : \A b \in Range(indexedData.benchmarkNames) :
    NotNull(ScoreOf(indexedData, m, b))

\* regression = trainModelForBenchmark(indexedData, bench), which is to be
\* called on a table without missing score.
Train ==
  /\ tb.pc = "ready" /\ GdReady
  /\ \E indexedData \in {indexBenchmarkData(tb.input, MultivariateSource)} :
       /\ Complete(indexedData)
       /\ \E bench \in Range(indexedData.benchmarkNames) :
            tb' = [tb EXCEPT !.pc = "trained", !.bench = bench,
                             !.regression = trainModelForBenchmark(indexedData, bench)]

(***************************************************************************)
(* The same caller calling an optimizer, followed through the loop of the  *)
(* optimizer                                                               *)
(***************************************************************************)
\* The largest iteration count passed to an optimizer.
MaxDescents == 4
\* `j < 100`
MaxTrials == 100
\* The largest iteration count passed to the consolidated optimizer, whose
\* step sizes are fractions of the iteration count.
MaxSteps == 2
\* The optimizers are followed on the tables of at most this many benchmarks
\* and entries, and on the table of four entries.
MaxBenchmarksDescended == 2
MaxEntriesDescended == 2

\* The largest iteration count passed to the multivariate gradient descent on
\* the table of four entries, whose fractions grow with every step.
MaxDescentsOfLarger == 1

\* The iteration counts passed with a table.
DescentsOf(table) == IF table = LargerTable THEN MaxDescentsOfLarger ELSE MaxDescents

Descendable(table) ==
  \/ table = LargerTable
  \/ /\ Len(table.models) <= MaxEntriesDescended
     /\ Len(indexBenchmarkData(table, DescentSource).benchmarkNames) <= MaxBenchmarksDescended

\* The norm is a number the model can divide by (or NaN): not the root of a
\* number that is no square.
Followed(variables) == ~IsRoot(GradientNorm(variables))

DescentData == indexBenchmarkData(tb.input, DescentSource)

\* modelGraph and parameterGraph as estimateMissingBenchmarks builds them.
GraphFrom(indexedData, initial) ==
  buildComputationalGraph(indexedData, initial.scores, initial.parameters)

InitialGraph(indexedData) ==
  GraphFrom(indexedData, getInitialParametersAndScores(indexedData))

\* `loss.value` of a loss graph.
LossValue(graph) == graph.nodes[graph.at].value

\* estimateMissingBenchmarks(input, n) of the multivariate gradient descent,
\* up to the loop of performGradientDescent.
GdStart ==
  /\ tb.pc = "ready" /\ GdReady
  /\ Descendable(tb.input)
  /\ \E n \in 0..DescentsOf(tb.input), variables \in {InitialGraph(DescentData)} :
       gd' = [pc |-> "loop", algorithm |-> "multivariate", iterations |-> n, i |-> 0,
              j |-> 0, halvings |-> 0, variables |-> variables,
              variablesCopy |-> variables, loss |-> Zero, newLoss |-> Zero,
              output |-> NoTable, lr |-> Null, calls |-> 1,
              first |-> [output |-> NoTable, variables |-> <<>>]]

\* Mutant: every outer iteration starts over with the step size 1.
GdBeginUnitStep ==
  /\ gd.pc = "loop" /\ gd.algorithm = "multivariate"
  /\ gd.i < gd.iterations
  /\ \E graph \in {computeMultivariateLoss(gd.variables, DescentData)} :
       \E graded \in {Graded(gd.variables, graph)} :
         /\ Followed(graded)
         /\ gd' = [gd EXCEPT !.pc = "search", !.j = 0, !.variables = graded,
                             !.variablesCopy = graded, !.halvings = 0,
                             !.loss = LossValue(graph),
                             !.newLoss = LossValue(graph)]

\* The head of an outer iteration: the loss, its gradients, the copies.
GdBegin ==
  /\ gd.pc = "loop" /\ gd.algorithm = "multivariate"
  /\ gd.i < gd.iterations
  /\ \E graph \in {computeMultivariateLoss(gd.variables, DescentData)} :
       \E graded \in {Graded(gd.variables, graph)} :
         /\ Followed(graded)
         /\ gd' = [gd EXCEPT !.pc = "search", !.j = 0, !.variables = graded,
                             !.variablesCopy = graded,
                             !.loss = LossValue(graph),
                             !.newLoss = LossValue(graph)]

\* Mutant: a line search without the bound on its trials.
SearchingUnbounded == GreaterEq(gd.newLoss, gd.loss)

\* `j < 100 && newLoss.value >= loss.value`
Searching == gd.j < MaxTrials /\ GreaterEq(gd.newLoss, gd.loss)

\* Mutant: a trial that did not improve the loss is not undone.
GdTrialNotRestored ==
  /\ gd.pc = "search" /\ Searching
  /\ \E stepped \in {gradientDescent(gd.variablesCopy, gd.halvings)} :
       \E newLoss \in {LossValue(computeMultivariateLoss(stepped, DescentData))} :
         \E worse \in {GreaterEq(newLoss, gd.loss)} :
           gd' = [gd EXCEPT !.j = @ + 1, !.newLoss = newLoss,
                            !.variablesCopy = stepped,
                            !.halvings = IF worse THEN @ + 1 ELSE @]

\* One trial of the line search.  Number.isNaN(newLoss) is asked of the node,
\* not of its value, and is false.
GdTrial ==
  /\ gd.pc = "search" /\ Searching
  /\ \E stepped \in {gradientDescent(gd.variablesCopy, gd.halvings)} :
       \E newLoss \in {LossValue(computeMultivariateLoss(stepped, DescentData))} :
         \E worse \in {GreaterEq(newLoss, gd.loss)} :
           gd' = [gd EXCEPT !.j = @ + 1, !.newLoss = newLoss,
                            !.variablesCopy = IF worse THEN gd.variables ELSE stepped,
                            !.halvings = IF worse THEN @ + 1 ELSE @]

\* `newLoss.value >= loss.value || Number.isNaN(newLoss.value)`
NoProgress == GreaterEq(gd.newLoss, gd.loss) \/ gd.newLoss = NaN

\* Mutant: the scores are extracted without updatePredictedScores.
FinishedAsStepped(variables) == extractFinalScores(variables, DescentData)

\* What estimateMissingBenchmarks returns once the loop is left.
Finished(variables) ==
  extractFinalScores(updatePredictedScores(variables, DescentData, 1), DescentData)

\* Mutant: the step taken on the real variables has the first step size.
GdAcceptFirstStepSize ==
  /\ gd.pc = "search" /\ ~Searching /\ ~NoProgress
  /\ gd' = [gd EXCEPT !.pc = "loop", !.i = @ + 1,
                      !.variables = gradientDescent(gd.variables, 0)]

\* The line search found a step: it is taken on the real variables.
GdAccept ==
  /\ gd.pc = "search" /\ ~Searching /\ ~NoProgress
  /\ gd' = [gd EXCEPT !.pc = "loop", !.i = @ + 1,
                      !.variables = gradientDescent(gd.variables, gd.halvings)]

\* The line search found none: break, and the function returns.
GdBreak ==
  /\ gd.pc = "search" /\ ~Searching /\ NoProgress
  /\ gd' = [gd EXCEPT !.pc = "done", !.output = Finished(gd.variables)]

\* The iterations are done, and the function returns.
GdReturn ==
  /\ gd.pc = "loop" /\ gd.algorithm = "multivariate"
  /\ gd.i >= gd.iterations
  /\ gd' = [gd EXCEPT !.pc = "done", !.output = Finished(gd.variables)]

ConsolidatedData == indexBenchmarkData(tb.input, ConsolidatedSource)

\* estimateMissingBenchmarks(input, n) of the consolidated optimizer, up to
\* its loop.
CgStart ==
  /\ tb.pc = "ready" /\ GdReady
  /\ Descendable(tb.input)
  /\ \E n \in 0..MaxSteps, variables \in {ConsolidatedGraph(ConsolidatedData)} :
       gd' = [pc |-> "loop", algorithm |-> "consolidated", iterations |-> n, i |-> 0,
              j |-> 0, halvings |-> 0, variables |-> variables,
              variablesCopy |-> variables, loss |-> Zero, newLoss |-> Zero,
              output |-> NoTable, lr |-> Null, calls |-> 1,
              first |-> [output |-> NoTable, variables |-> <<>>], step |-> Null]

\* One iteration of its loop.
CgStep ==
  /\ gd.pc = "loop" /\ gd.algorithm = "consolidated"
  /\ gd.i < gd.iterations
  /\ \E allLoss \in {squaredMultiPredictionErrorLoss(gd.variables, ConsolidatedData)} :
       \E graded \in {Graded(gd.variables, allLoss)} :
         /\ Followed(graded)
         /\ \E step \in {ScheduledStepSize(gd.i, gd.iterations)} :
              \E stepped \in {gradientDescentConsolidated(graded, step, gd.lr)} :
                gd' = [gd EXCEPT !.i = @ + 1, !.loss = LossValue(allLoss), !.step = step,
                                 !.variables = stepped.variables, !.lr = stepped.lr]

\* The iterations are done, and the function returns.
CgReturn ==
  /\ gd.pc = "loop" /\ gd.algorithm = "consolidated"
  /\ gd.i >= gd.iterations
  /\ gd' = [gd EXCEPT !.pc = "done",
                      !.output = extractFinalScores(gd.variables, ConsolidatedData)]

\* The caller calls the consolidated optimizer once more, with the same
\* arguments, in the module as the first call left it.
CgAgain ==
  /\ gd.pc = "done" /\ gd.algorithm = "consolidated" /\ gd.calls = 1
  /\ \E variables \in {ConsolidatedGraph(ConsolidatedData)} :
       gd' = [gd EXCEPT !.pc = "loop", !.i = 0, !.variables = variables,
                        !.variablesCopy = variables, !.loss = Zero, !.newLoss = Zero,
                        !.output = NoTable, !.calls = 2, !.step = Null,
                        !.first = [output |-> gd.output, variables |-> gd.variables]]

\* The caller calls the combiner or the multivariate regression once more,
\* with the same arguments.
CallAgain ==
  /\ tb.pc \in {"combined", "regressed"} /\ tb.calls = 1
  /\ tb' = [tb EXCEPT !.calls = 2, !.again =
              IF tb.pc = "combined" THEN estimateMissingBenchmarks(tb.input, tb.iterations)
              ELSE estimateMissingBenchmarksMultivariate(tb.input, tb.iterations)]

TbNext ==
  \/ (Index \/ Combine \/ Regress \/ FitPairs \/ Train \/ CallAgain) /\ UNCHANGED <<lin, ag, gd>>
  \/ (GdStart \/ GdBegin \/ GdTrial \/ GdAccept \/ GdBreak \/ GdReturn) /\ UNCHANGED <<lin, ag, tb>>
  \/ (CgStart \/ CgStep \/ CgReturn \/ CgAgain) /\ UNCHANGED <<lin, ag, tb>>

SpecEstimate == TbInit /\ [][TbNext]_vars

(***************************************************************************)
(* Properties of the estimators                                            *)
(***************************************************************************)
\* The table after the merge step, as the called estimator indexes it.
Merged ==
  indexBenchmarkData(tb.input, IF tb.pc = "regressed" THEN MultivariateSource
                               ELSE "Bivariate regression")

\* The cell of the returned table for the i-th model and the j-th benchmark.
Returned(i, j) == tb.output.models[i].benchmarks[j]

\* The places of the cells of a merged table: model and benchmark positions.
Places(merged) == (1..Len(merged.modelNames)) \X (1..Len(merged.benchmarkNames))

\* The cell of the merged table at a place.
MergedCell(merged, p) == merged.modelFromName[merged.modelNames[p[1]]][merged.benchmarkNames[p[2]]]

\* A stdDev that is not below zero: a number >= 0 or the root of one.
NonNegative(x) == IsRoot(x) \/ (IsNum(x) /\ x.n >= 0)

\* The returned cell has the score, stdDev and source of the merged cell.
Preserved(merged, p) ==
  /\ Returned(p[1], p[2]).score = MergedCell(merged, p).score
  /\ Returned(p[1], p[2]).stdDev = MergedCell(merged, p).stdDev
  /\ Returned(p[1], p[2]).source = MergedCell(merged, p).source

\* The source by which the called estimator tells its own estimates.
OwnSource == IF tb.pc = "regressed" THEN MultivariateSource ELSE WeighedSource

\* The multivariate gradient descent has returned every cell whose merged
\* score is present with the score, stdDev and source of the merge step.
DescentPreserved ==
  (gd.pc = "done" /\ gd.algorithm = "multivariate") =>
    \A merged \in {DescentData} : \A p \in Places(merged) :
      NotNull(MergedCell(merged, p).score) =>
        /\ gd.output.models[p[1]].benchmarks[p[2]].score = MergedCell(merged, p).score
        /\ gd.output.models[p[1]].benchmarks[p[2]].stdDev = MergedCell(merged, p).stdDev
        /\ gd.output.models[p[1]].benchmarks[p[2]].source = MergedCell(merged, p).source

\* C1 as stated: every cell whose merged score is present is returned with the
\* score, stdDev and source of the merge step, by the combiner, the
\* multivariate regression and the multivariate gradient descent.
KnownCellsPreserved ==
  /\ tb.pc \in {"combined", "regressed"} =>
       \A merged \in {Merged} : \A p \in Places(merged) :
         NotNull(MergedCell(merged, p).score) => Preserved(merged, p)
  /\ DescentPreserved

\* C1: the same for the gradient descent; for the combiner and the
\* multivariate regression, every cell whose merged score is present and whose
\* source is not the one the called estimator gives to its own estimates is
\* returned with the score, stdDev and source of the merge step.
ObservedCellsPreserved ==
  /\ tb.pc \in {"combined", "regressed"} =>
       \A merged \in {Merged} : \A p \in Places(merged) :
         (NotNull(MergedCell(merged, p).score) /\ MergedCell(merged, p).source # OwnSource)
           => Preserved(merged, p)
  /\ DescentPreserved

\* An estimator has made a pass over a table that has a cell with a score
\* beside a cell without.
KnownCellBesideMissing ==
  /\ tb.pc \in {"combined", "regressed"} /\ tb.iterations >= 1
  /\ \E p \in Places(Merged), q \in Places(Merged) :
       /\ NotNull(MergedCell(Merged, p).score) /\ MergedCell(Merged, p).source # OwnSource
       /\ MergedCell(Merged, q).score = Null

\* C2: the combiner called with iterations = 0 returns a number as the score
\* of every cell that was missing in the input, and returns a table without
\* models unchanged.
ZeroIterationsFill ==
  (tb.pc = "combined" /\ tb.iterations = 0) =>
    LET merged == Merged
    IN  /\ \A p \in Places(merged) :
             MergedCell(merged, p).score = Null => IsNum(Returned(p[1], p[2]).score)
        /\ tb.input.models = <<>> => tb.output = tb.input

\* C8: every cell of a returned table has stdDev >= 0.
StdDevNonNegative ==
  tb.pc \in {"combined", "regressed"} =>
    \A i \in 1..Len(tb.output.models) : \A j \in 1..Len(tb.output.models[i].benchmarks) :
      NonNegative(Returned(i, j).stdDev)

\* The models that have both X and Y, with their scores on the line y = 2x + 1.
OnTheLine ==
  LET indexedData == indexBenchmarkData(tb.input, "Bivariate regression")
      both == ModelsWith(indexedData, {"X", "Y"})
  IN  /\ {"X", "Y"} \subseteq Range(indexedData.benchmarkNames)
      /\ Len(both) >= 2
      /\ \A m \in Range(both) :
           ScoreOf(indexedData, m, "Y") = Add(Mul(Num(2), ScoreOf(indexedData, m, "X")), One)

\* Two of those models differ in X.
TwoPredictorValues ==
  LET indexedData == indexBenchmarkData(tb.input, "Bivariate regression")
      both == ModelsWith(indexedData, {"X", "Y"})
  IN  \E m1 \in Range(both), m2 \in Range(both) :
        ScoreOf(indexedData, m1, "X") # ScoreOf(indexedData, m2, "X")

\* What C9 promises of the two fits.
LineRecovered ==
  /\ tb.pc = "paired" => tb.estimators["Y"]["X"] = [a |-> Num(2), b |-> One]
  /\ (tb.pc = "trained" /\ tb.bench = "Y") => tb.regression.residualVariance = Zero

PairedScores(bj, bk, bench) ==
  LET indexedData == indexBenchmarkData(tb.input, "Bivariate regression")
      both == ModelsWith(indexedData, {bj, bk})
  IN  [i \in 1..Len(both) |-> ScoreOf(indexedData, both[i], bench)]

SeveralObservations(m, b) ==
  /\ Len(EntriesOf(tb.input, m, b)) >= 2
  /\ \A i \in 1..Len(EntriesOf(tb.input, m, b)) : IsNum(EntriesOf(tb.input, m, b)[i].score)

\* The square of a standard deviation.
SquareOfDeviation(x) == IF IsRoot(x) THEN x.radicand ELSE Square(x)

\* The cell is the mean, the sample standard deviation and the citation of
\* its observations.
MeanAndDeviation(cell, entries) ==
  /\ Mul(cell.score, Num(Len(entries))) = SumSeq([i \in 1..Len(entries) |-> entries[i].score])
  /\ Mul(SquareOfDeviation(cell.stdDev), Num(Len(entries) - 1))
       = SumSeq([i \in 1..Len(entries) |-> Square(Sub(entries[i].score, cell.score))])
  /\ cell.source = "Multiple: " \o Join([i \in 1..Len(entries) |-> EntryText(entries[i])], "; ")

InputModelNames ==
  Distinct([i \in 1..Len(tb.input.models) |-> tb.input.models[i].name])
InputBenchmarkNames ==
  Distinct(Flatten([i \in 1..Len(tb.input.models) |->
                     [j \in 1..Len(tb.input.models[i].benchmarks) |->
                        tb.input.models[i].benchmarks[j].name]]))

\* The places of the table of the caller that hold one observation.
SingleObservationsOfInput ==
  {p \in Range(InputModelNames) \X Range(InputBenchmarkNames) :
     Len(EntriesOf(tb.input, p[1], p[2])) = 1}

\* The places of the indexed table whose cell is built from one observation.
SingleObservations ==
  {p \in Range(tb.indexed.modelNames) \X Range(tb.indexed.benchmarkNames) :
     Len(EntriesOf(tb.input, p[1], p[2])) = 1}

\* C12 as stated: after the merge step every cell built from exactly one
\* observation has stdDev 0, whatever stdDev the observation carries.
SingleObservationWithoutDeviation ==
  tb.pc = "indexed" =>
    \A p \in SingleObservations : tb.indexed.modelFromName[p[1]][p[2]].stdDev = Zero

\* C12: after the merge step every cell built from exactly one observation
\* has the stdDev that the observation carries, and 0 when it carries none
\* (or null, 0 or NaN).
SingleObservationKeepsDeviation ==
  tb.pc = "indexed" =>
    \A p \in SingleObservations :
      tb.indexed.modelFromName[p[1]][p[2]].stdDev =
        (IF EntriesOf(tb.input, p[1], p[2])[1].stdDev \in {Null, Zero, NaN}
         THEN Zero ELSE EntriesOf(tb.input, p[1], p[2])[1].stdDev)

\* The only observation of a pair carries a stdDev other than 0, and the
\* table is indexed.
DeviationGiven ==
  /\ tb.pc = "indexed"
  /\ \E p \in SingleObservations :
       /\ IsNum(EntriesOf(tb.input, p[1], p[2])[1].stdDev)
       /\ EntriesOf(tb.input, p[1], p[2])[1].stdDev # Zero

\* The returned table has one entry per input name, and in each of them one
\* cell per benchmark name, in the one order of the benchmark names.
Rectangular ==
  /\ Len(tb.output.models) = Len(InputModelNames)
  /\ \A i \in 1..Len(tb.output.models) :
       /\ tb.output.models[i].name = InputModelNames[i]
       /\ Len(tb.output.models[i].benchmarks) = Len(InputBenchmarkNames)
       /\ \A j \in 1..Len(InputBenchmarkNames) :
            Returned(i, j).name = InputBenchmarkNames[j]

\* C13: for iterations >= 1 the table returned by the combiner holds exactly
\* one cell for every model name of the input and every benchmark name
\* observed for any model, the benchmarks in the same order for every model,
\* and every cell has a number as score.
CompleteTable ==
  (tb.pc = "combined" /\ tb.iterations >= 1) =>
    /\ Rectangular
    /\ \A i \in 1..Len(tb.output.models) : \A j \in 1..Len(tb.output.models[i].benchmarks) :
         IsNum(Returned(i, j).score)

\* The combiner has made at least one pass over a table of several models
\* and several benchmarks in which a cell had no score.
MissingCellCombined ==
  /\ tb.pc = "combined" /\ tb.iterations >= 1
  /\ Len(InputModelNames) >= 2 /\ Len(InputBenchmarkNames) >= 2
  /\ \E p \in Places(Merged) : MergedCell(Merged, p).score = Null

\* C14: in the table returned by the combiner or by the multivariate
\* regression, every cell that had no score in the input, absent or given
\* with a null score, carries the source naming the algorithm.
ImputedCellsTagged ==
  tb.pc \in {"combined", "regressed"} =>
    \A p \in Places(Merged) :
      MergedCell(Merged, p).score = Null => Returned(p[1], p[2]).source = OwnSource

ObservationObject(i, j) == [kind |-> "observation", entry |-> i, at |-> j]

InputObjects(table) ==
  {[kind |-> "table"], [kind |-> "models"]}
    \cup {[kind |-> "entry", entry |-> i] : i \in 1..Len(table.models)}
    \cup {[kind |-> "benchmarks", entry |-> i] : i \in 1..Len(table.models)}
    \cup UNION {{ObservationObject(i, j) : j \in 1..Len(table.models[i].benchmarks)} :
                  i \in 1..Len(table.models)}

\* deepCopy(data): every object of the result is a new one.
deepCopy(object) == [kind |-> "copy", of |-> object]

\* The objects pushed to modelFromName[model][bench]: observations of the
\* copy that indexBenchmarkData makes of its argument.
EntryObjects(table, model, bench) ==
  Flatten([i \in 1..Len(table.models) |->
            IF table.models[i].name = model
            THEN SelectSeq([j \in 1..Len(table.models[i].benchmarks) |->
                             IF table.models[i].benchmarks[j].name = bench
                             THEN deepCopy(ObservationObject(i, j))
                             ELSE [kind |-> "other"]],
                           LAMBDA o : o.kind = "copy")
            ELSE <<>>])

\* Mutant: the cell of one observation is the observation of the caller.
CellObjectKept(entries, model, bench) ==
  IF Len(entries) = 1 THEN entries[1].of
  ELSE [kind |-> "cell", model |-> model, bench |-> bench]

\* The object indexBenchmarkData leaves at modelFromName[model][bench]: an
\* object literal in each of its three branches.
CellObject(entries, model, bench) == [kind |-> "cell", model |-> model, bench |-> bench]

\* The cells of the indexed table.
IndexedCells(table) ==
  {CellObject(EntryObjects(table, m, b), m, b) :
     m \in Range(InputModelNames), b \in Range(InputBenchmarkNames)}

\* The cells of the indexed table that have no score.
IndexedCellsWithoutScore(table, missingSource) ==
  {CellObject(EntryObjects(table, p[1], p[2]), p[1], p[2]) :
     p \in {p \in Range(InputModelNames) \X Range(InputBenchmarkNames) :
              indexBenchmarkData(table, missingSource).modelFromName[p[1]][p[2]].score = Null}}

\* The objects a call assigns a property of.  The combiner and the
\* optimizers write the scores back to every cell of the indexed table (and
\* the estimators to the indexed table itself); the multivariate regression
\* initializes the cells without score and then works on copies.
WrittenObjects(table, variant, iterations) ==
  IF variant = "regressed"
  THEN IndexedCellsWithoutScore(table, MultivariateSource)
         \cup (IF iterations >= 1 THEN {deepCopy(c) : c \in IndexedCells(table)} ELSE {})
  ELSE IndexedCells(table) \cup {[kind |-> "indexedData"]}

\* The objects of the table unindexBenchmarkData returns: new arrays and
\* entries, around the cells of the indexed table it is given.
ReturnedObjects(table, variant, iterations) ==
  {[kind |-> "result"], [kind |-> "result models"]}
    \cup {[kind |-> "result entry", model |-> m] : m \in Range(InputModelNames)}
    \cup {[kind |-> "result benchmarks", model |-> m] : m \in Range(InputModelNames)}
    \cup (IF variant = "regressed" /\ iterations >= 1
          THEN {deepCopy(c) : c \in IndexedCells(table)}
          ELSE IndexedCells(table))

\* The call that has returned, if any: its variant and its iteration count.
ReturnedCalls ==
  (IF tb.pc \in {"combined", "regressed"}
   THEN {[variant |-> tb.pc, iterations |-> tb.iterations]} ELSE {})
    \cup (IF gd.pc = "done"
          THEN {[variant |-> gd.algorithm, iterations |-> gd.iterations]} ELSE {})

GdLoop == (GdBegin \/ GdTrial \/ GdAccept \/ GdBreak \/ GdReturn) /\ UNCHANGED <<lin, ag, tb>>

\* The caller with a table the optimizer is followed on, and the call of the
\* optimizer alone.
DescentInit == TbInitOn({t \in Tables \cup {LargerTable} : Descendable(t)})

DescentNext == (GdStart /\ UNCHANGED <<lin, ag, tb>>) \/ GdLoop

GdRunning == gd.pc \in {"loop", "search"} /\ gd.algorithm = "multivariate"

\* The head of an iteration whose gradient has a norm the model does not
\* compute with: the descent is not followed further.
GdNotFollowed ==
  /\ gd.pc = "loop" /\ gd.algorithm = "multivariate" /\ gd.i < gd.iterations
  /\ ~Followed(Graded(gd.variables, computeMultivariateLoss(gd.variables, DescentData)))

\* ENABLED <<GdLoop>>_vars, from the guards of the steps.
GdLoopEnabled == GdRunning /\ ~GdNotFollowed

\* Weak fairness of the steps of the loop, WF_vars(GdLoop), with its ENABLED
\* written as the state predicate it is.
GdLoopFair == []<>(~GdLoopEnabled) \/ []<><<GdLoop>>_vars

SpecDescent == DescentInit /\ [][DescentNext]_vars /\ GdLoopFair

\* The two ways out of the loop.
BudgetExhausted == gd.pc = "loop" /\ gd.i >= gd.iterations
NoImprovingStep == gd.pc = "search" /\ ~Searching /\ NoProgress

\* C17: performGradientDescent terminates, after at most `iterations` outer
\* iterations of at most 100 trial steps each, and its loop is left either
\* because the iterations are exhausted or because a line search found no
\* improving step, never both.
DescentTerminates ==
  /\ [](GdRunning => (gd.i <= gd.iterations /\ gd.j <= MaxTrials))
  /\ [][(GdRunning /\ gd'.pc = "done")
          => ((BudgetExhausted \/ NoImprovingStep) /\ ~(BudgetExhausted /\ NoImprovingStep))]_vars
  /\ (GdRunning ~> (gd.pc = "done" \/ GdNotFollowed))

\* A descent has returned because the hundredth trial of a line search still
\* did not improve the loss.
LineSearchGaveUp ==
  /\ gd.pc = "done" /\ gd.algorithm = "multivariate"
  /\ gd.iterations >= 1 /\ gd.j = MaxTrials

\* A descent has returned after all its iterations, each with a step taken.
AllIterationsTaken ==
  /\ gd.pc = "done" /\ gd.algorithm = "multivariate"
  /\ gd.iterations >= 1 /\ gd.i = gd.iterations


(***************************************************************************)
(* Predictors that share no model with the benchmark they predict          *)
(***************************************************************************)
\* The indexed table with the cell of model m on benchmark bj left without
\* observation.
WithoutObservation(indexedData, m, bj) ==
  [indexedData EXCEPT !.modelFromName =
    Stored([modelName \in Range(indexedData.modelNames) |->
      Stored([bench \in Range(indexedData.benchmarkNames) |->
        IF modelName = m /\ bench = bj
        THEN MergeEntries(bj, <<>>, "Bivariate regression")
        ELSE indexedData.modelFromName[modelName][bench]])])]

\* The (model, bk, bj) where the model has a score on bj and none on bk, and
\* no model has a score on both.
UnpairedPredictions(indexedData) ==
  {t \in Range(indexedData.modelNames) \X Range(indexedData.benchmarkNames)
           \X Range(indexedData.benchmarkNames) :
     /\ t[2] # t[3]
     /\ ScoreOf(indexedData, t[1], t[2]) = Null
     /\ NotNull(ScoreOf(indexedData, t[1], t[3]))
     /\ Len(ModelsWith(indexedData, {t[2], t[3]})) = 0}

\* The score computeAllBenchmarks gives to a cell.
FusedScore(indexedData, m, bk) == computeAllBenchmarks(indexedData).modelFromName[m][bk].score

\* C18: where no model has a score on both bj and bk, the estimator of bk
\* from bj is {a: 0, b: 0}, and a missing cell on bk of a model that has a
\* score on bj is estimated as if the model had no score on bj.
UnpairedPredictorIgnored ==
  (tb.pc = "combined" /\ tb.iterations = 1) =>
    \A indexedData \in {indexBenchmarkData(tb.input, "Bivariate regression")} :
      \A t \in UnpairedPredictions(indexedData) :
        /\ Estimator(indexedData, t[2], t[3]) = [a |-> Zero, b |-> Zero]
        /\ FusedScore(indexedData, t[1], t[2])
             = FusedScore(WithoutObservation(indexedData, t[1], t[3]), t[1], t[2])

\* The part of it that is about the estimator alone.
UnpairedEstimatorIsZero ==
  (tb.pc = "combined" /\ tb.iterations = 1) =>
    \A indexedData \in {indexBenchmarkData(tb.input, "Bivariate regression")} :
      \A t \in UnpairedPredictions(indexedData) :
        Estimator(indexedData, t[2], t[3]) = [a |-> Zero, b |-> Zero]


(***************************************************************************)
(* Training on singular normal equations                                   *)
(***************************************************************************)
\* The table that was trained on, and its normal matrix for tb.bench.
TrainedData == indexBenchmarkData(tb.input, MultivariateSource)

TrainedNormalMatrix ==
  NormalMatrix(FeatureRows(TrainedData, FeaturesFor(TrainedData, tb.bench)),
               Len(FeaturesFor(TrainedData, tb.bench)) + 1)

\* trainModelForBenchmark has built normal equations, and they are singular.
SingularTraining ==
  /\ tb.pc = "trained"
  /\ Len(FeaturesFor(TrainedData, tb.bench)) > 0
  /\ Len(TrainedData.modelNames) > 0
  /\ Det(TrainedNormalMatrix) = Zero

StrictlyPositive(x) == IF IsRoot(x) THEN TRUE ELSE IsNum(x) /\ x.n > 0

\* `initialEstimations`: the first pass of the combiner on the merged table.
InitialEstimations(merged) == computeAllBenchmarks(merged).modelFromName

\* The place holds one observation, and it has a score.
KnownSingleObservation(merged, p) ==
  /\ Len(EntriesOf(tb.input, merged.modelNames[p[1]], merged.benchmarkNames[p[2]])) = 1
  /\ NotNull(MergedCell(merged, p).score)

\* C20: the multivariate regression called with numIterations = 0 returns
\* every missing cell with the first-pass estimate of the combiner as score
\* and a stdDev above 0, and every known cell of one observation with stdDev 0.
ZeroIterationsInitialised ==
  (tb.pc = "regressed" /\ tb.iterations = 0) =>
    \A merged \in {Merged} : \A p \in Places(merged) :
      /\ MergedCell(merged, p).score = Null =>
           /\ Returned(p[1], p[2]).score =
                InitialEstimations(merged)[merged.modelNames[p[1]]][merged.benchmarkNames[p[2]]].score
           /\ StrictlyPositive(Returned(p[1], p[2]).stdDev)
      /\ KnownSingleObservation(merged, p) => Returned(p[1], p[2]).stdDev = Zero

\* The part of it that is about the scores: every missing cell is returned
\* with the first-pass estimate of the combiner as score.
ZeroIterationsInitialScores ==
  (tb.pc = "regressed" /\ tb.iterations = 0) =>
    \A merged \in {Merged} : \A p \in Places(merged) :
      MergedCell(merged, p).score = Null =>
        Returned(p[1], p[2]).score =
          InitialEstimations(merged)[merged.modelNames[p[1]]][merged.benchmarkNames[p[2]]].score

\* The part of it that is about the stdDev of the missing cells.
ZeroIterationsPositiveDeviations ==
  (tb.pc = "regressed" /\ tb.iterations = 0) =>
    \A merged \in {Merged} : \A p \in Places(merged) :
      MergedCell(merged, p).score = Null => StrictlyPositive(Returned(p[1], p[2]).stdDev)


(***************************************************************************)
(* The loss along the accepted steps of performGradientDescent             *)
(***************************************************************************)
\* An outer iteration has accepted a step; gd.loss is the loss computed at
\* its start.
StepAccepted == gd.pc = "loop" /\ gd.algorithm = "multivariate" /\ gd.i >= 1

\* C4: after an outer iteration has accepted a step, the loss computed from
\* the real variables, which is the loss at the start of the next outer
\* iteration, is strictly lower than the loss at the start of that iteration.
AcceptedStepsLowerLoss ==
  StepAccepted =>
    Less(LossValue(computeMultivariateLoss(gd.variables, DescentData)), gd.loss)

\* A step was accepted with a step size that the line search had halved.
HalvedStepAccepted == StepAccepted /\ gd.halvings >= 1


(***************************************************************************)
(* NaN in the tables the optimizers return                                 *)
(***************************************************************************)
\* C7: no score of a table returned by an optimizer is NaN.
NoNaNReturned ==
  gd.pc = "done" =>
    \A i \in 1..Len(gd.output.models) : \A j \in 1..Len(gd.output.models[i].benchmarks) :
      gd.output.models[i].benchmarks[j].score # NaN

\* The same of the multivariate gradient descent alone, whose gradientDescent
\* returns before dividing by a norm below 1e-10.
NoNaNDescended ==
  (gd.pc = "done" /\ gd.algorithm = "multivariate") =>
    \A i \in 1..Len(gd.output.models) : \A j \in 1..Len(gd.output.models[i].benchmarks) :
      gd.output.models[i].benchmarks[j].score # NaN


(***************************************************************************)
(* Cells given with a null score, through the iterations of the            *)
(* multivariate regression                                                 *)
(***************************************************************************)
\* The places the input gives an observation for, whose merged score is null.
GivenWithoutScore(merged) ==
  {p \in Places(merged) :
     /\ Len(EntriesOf(tb.input, merged.modelNames[p[1]], merged.benchmarkNames[p[2]])) >= 1
     /\ MergedCell(merged, p).score = Null}

\* The returned cell has the initial estimate as score and as stdDev.
KeepsInitialEstimate(merged, p) ==
  /\ Returned(p[1], p[2]).score =
       InitialEstimations(merged)[merged.modelNames[p[1]]][merged.benchmarkNames[p[2]]].score
  /\ Returned(p[1], p[2]).stdDev = Returned(p[1], p[2]).score

\* C21 as stated: whatever the number of iterations, every cell given with a
\* null score is returned with its initial estimate as score and as stdDev.
GivenNullKeepsEstimate ==
  tb.pc = "regressed" =>
    \A merged \in {Merged} : \A p \in GivenWithoutScore(merged) :
      KeepsInitialEstimate(merged, p)

\* C21: the same of the cells given with a null score under a source other
\* than 'Multivariate regression'.
GivenNullOfOtherSourceKeepsEstimate ==
  tb.pc = "regressed" =>
    \A merged \in {Merged} : \A p \in GivenWithoutScore(merged) :
      MergedCell(merged, p).source # MultivariateSource => KeepsInitialEstimate(merged, p)

\* Two iterations have been made over a table that has a cell given with a
\* null score, beside a cell that is not given and was predicted anew.
GivenNullIterated ==
  /\ tb.pc = "regressed" /\ tb.iterations = 2
  /\ \E p \in GivenWithoutScore(Merged) : MergedCell(Merged, p).source # MultivariateSource
  /\ \E q \in Places(Merged) :
       /\ MergedCell(Merged, q).score = Null
       /\ ~KeepsInitialEstimate(Merged, q)


(***************************************************************************)
(* The line search of performGradientDescent                               *)
(***************************************************************************)
\* The values of the nodes of a graph.
Values(variables) == [q \in 1..Len(variables) |-> variables[q].value]

\* A step of the line search of the multivariate gradient descent: a trial,
\* the step taken on the real variables, or the break.
InLineSearch == gd.pc = "search" /\ gd.algorithm = "multivariate"

\* The trial made by this step did not improve the loss: it is undone and
\* the step size is halved, unless its loss is NaN, after which no trial is
\* made.  A trial that improved the loss leaves the step size as it is.
TrialSettled ==
  /\ gd.j < MaxTrials /\ gd'.j = gd.j + 1
  /\ Values(gd'.variables) = Values(gd.variables)
  /\ IF Less(gd'.newLoss, gd.loss)
     THEN gd'.halvings = gd.halvings
     ELSE \/ /\ Values(gd'.variablesCopy) = Values(gd.variables)
             /\ gd'.halvings = gd.halvings + 1
          \/ gd'.newLoss = NaN /\ ~GreaterEq(gd'.newLoss, gd'.loss)

MaxScheduled == 4

\* The iteration counts and iteration indexes of the runs up to that length.
Scheduled == {r \in (1..MaxScheduled) \X (0..(MaxScheduled - 1)) : r[2] < r[1]}

\* The point at index i of n on the line from 0.1 at index 0 to 0.000001 at
\* index n.
OnTheLineOfDecay(i, n) ==
  Sub(Sci(1, 1, -1), Mul(Rat(i, n), Sub(Sci(1, 1, -1), Sci(1, 1, -6))))

\* The consolidated optimizer has made an iteration: gd.step is its step size.
ConsolidatedStepMade ==
  gd.pc \in {"loop", "done"} /\ gd.algorithm = "consolidated" /\ gd.i >= 1

\* An outer iteration of performGradientDescent starts: no trial is made yet.
IterationStarts == gd.pc = "search" /\ gd.algorithm = "multivariate" /\ gd.j = 0

\* The step sizes of the consolidated optimizer lie on the line of decay.
ConsolidatedStepsDecay ==
  /\ ConsolidatedStepMade => gd.step = OnTheLineOfDecay(gd.i - 1, gd.iterations)
  /\ gd.pc \in {"loop", "done"} =>
       \A r \in Scheduled : ScheduledStepSize(r[2], r[1]) = OnTheLineOfDecay(r[2], r[1])

\* C23 as stated: the step size with which an outer iteration starts decays
\* linearly with the index of the iteration, in the consolidated optimizer
\* and in performGradientDescent, where it starts from 1: a later iteration
\* starts with less than 1, and with no less than the point of its index on
\* the line from 1 at the first iteration to 0 at the end of the run.
StepSizeDecaysLinearly ==
  /\ ConsolidatedStepsDecay
  /\ IterationStarts =>
       IF gd.i = 0 THEN stepSize(gd.halvings) = One
       ELSE /\ Less(stepSize(gd.halvings), One)
            /\ GreaterEq(stepSize(gd.halvings), Sub(One, Rat(gd.i, gd.iterations)))

\* C23: the step size of iteration i of the n iterations of the consolidated
\* optimizer is 0.1 (1 - i/n) + 0.000001 (i/n); performGradientDescent starts
\* its first iteration with 1.
ConsolidatedStepSizeDecaysLinearly ==
  /\ ConsolidatedStepsDecay
  /\ (IterationStarts /\ gd.i = 0) => stepSize(gd.halvings) = One

\* The consolidated optimizer has made the second of two iterations.
SecondScheduledStepMade ==
  /\ ConsolidatedStepMade /\ gd.i = 2
  /\ Less(gd.step, Sci(1, 1, -1)) /\ Less(Sci(1, 1, -6), gd.step)


(***************************************************************************)
(* The step size over a run of performGradientDescent                      *)
(***************************************************************************)
\* The trial that is made next fails: its loss is not below the loss of the
\* iteration.
TrialFails ==
  /\ InLineSearch /\ Searching
  /\ ~Less(LossValue(computeMultivariateLoss(
             gradientDescent(gd.variablesCopy, gd.halvings), DescentData)), gd.loss)

\* C24: over a run of performGradientDescent stepSize, which is 1 halved
\* gd.halvings times, never increases; it changes only in a failed trial of a line search, which halves it; the head
\* of an outer iteration and the step that ends one leave it as it is, so an
\* outer iteration starts with the value the one before left.
StepSizeOnlyHalves ==
  [][GdRunning =>
       /\ gd'.halvings >= gd.halvings
       /\ gd'.halvings # gd.halvings =>
            /\ TrialFails /\ gd'.pc = "search" /\ gd'.i = gd.i
            /\ gd'.halvings = gd.halvings + 1
       /\ gd'.i # gd.i => gd'.halvings = gd.halvings
       /\ (gd.pc = "loop" /\ gd'.pc = "search") => gd'.halvings = gd.halvings]_vars

\* An outer iteration after the first starts with a step size that a line
\* search of an earlier iteration halved.
HalvedStepSizeCarried ==
  IterationStarts /\ gd.i >= 1 /\ gd.halvings >= 1


(***************************************************************************)
(* The scores that the multivariate gradient descent returns for the cells *)
(* without score                                                           *)
(***************************************************************************)
GdDone == gd.pc = "done" /\ gd.algorithm = "multivariate"

\* The cells without score of the table that is descended.
ImputedPlaces == {p \in Places(DescentData) : MergedCell(DescentData, p).score = Null}

\* The score returned for a cell.
ReturnedScore(p) == gd.output.models[p[1]].benchmarks[p[2]].score

\* The value of the leaf of a cell as the last step on gd.variables left it.
SteppedLeaf(p) == gd.variables[ScoreAt(DescentData, p[1], p[2])].value

\* alpha and the betas of the benchmark k, applied to the scores of the model
\* of the cell: the returned scores of the benchmarks before k, the leaves of
\* the benchmarks after k.
RecomputedLeaf(p) ==
  Add(gd.variables[AlphaAt(DescentData, p[2])].value,
      SumSeq([j \in 1..Len(DescentData.benchmarkNames) |->
               IF j = p[2] THEN Zero
               ELSE Mul(gd.variables[BetaAt(DescentData, p[2], j)].value,
                        IF j < p[2] THEN ReturnedScore(<<p[1], j>>)
                        ELSE SteppedLeaf(<<p[1], j>>))]))

\* C25 as stated: the score returned for a cell without score is the value of
\* the leaf of the cell as the last accepted step left it.
ReturnsSteppedLeaves ==
  GdDone => \A p \in ImputedPlaces : ReturnedScore(p) = SteppedLeaf(p)

\* C25: the score returned for a cell without score of the benchmark k is
\* the value that updatePredictedScores gives to the leaf of the cell after
\* the loop: alpha of k plus the betas of k times the scores of the model on
\* the other benchmarks, with the parameters as the last accepted step left
\* them.
ReturnsRecomputedLeaves ==
  GdDone => \A p \in ImputedPlaces : ReturnedScore(p) = RecomputedLeaf(p)

\* A step was accepted, and the score returned for a cell without score is
\* not the value the step left on the leaf of the cell.
SteppedLeafReplaced ==
  /\ GdDone /\ gd.i >= 1
  /\ \E p \in ImputedPlaces : ReturnedScore(p) # SteppedLeaf(p)


(***************************************************************************)
(* What a step of performGradientDescent moves                             *)
(***************************************************************************)
\* The positions of the leaves of the cells without score.
ImputedLeaves == {ScoreAt(DescentData, p[1], p[2]) : p \in ImputedPlaces}

\* The step that ends an outer iteration: gradientDescent(variables, stepSize).
StepTaken == InLineSearch /\ gd'.pc = "loop"

\* The leaves after a step that moved the parameters as the step did and
\* left the leaves of the cells as they were.
OnlyParametersMoved ==
  [q \in 1..Len(gd.variables) |->
    IF q \in ImputedLeaves THEN gd.variables[q] ELSE gd'.variables[q]]

\* The step leaves the leaves of the cells without score where they were.
StepKeepsScoreLeaves ==
  [][StepTaken => \A q \in ImputedLeaves : gd'.variables[q].value = gd.variables[q].value]_vars

\* C26 as stated: a step changes only alpha and the betas; it does not move
\* the leaves of the cells without score, which after the step hold the
\* values recomputed from alpha and the betas.
StepMovesOnlyParameters ==
  [][StepTaken =>
       Values(gd'.variables) =
         Values(updatePredictedScores(OnlyParametersMoved, DescentData, 1))]_vars

\* The step moves nothing but Variable nodes: the parameters and the leaves of
\* the cells without score.
StepMovesOnlyVariables ==
  [][StepTaken =>
       \A q \in 1..Len(gd.variables) :
         gd'.variables[q].value # gd.variables[q].value =>
           /\ gd.variables[q].operation = "variable"
           /\ q \in ImputedLeaves \/ q > Len(DescentData.modelNames) * Len(DescentData.benchmarkNames)]_vars


(***************************************************************************)
(* The variance of a cell fused from several predictions                   *)
(***************************************************************************)
\* The combiner has made one pass over the table.
CombinedOnce == tb.pc = "combined" /\ tb.iterations = 1

\* The variances of the predictions of the cell (m, bk) that enter the fusion.
UsableVariances(indexedData, biScores, m, bk) ==
  [i \in 1..Len(Predictors(indexedData, biScores, m, bk)) |->
    biScores[m][bk][Predictors(indexedData, biScores, m, bk)[i]].variance]

\* (sum of w_j^2 v_j + sum over the ordered pairs j # l of w_j w_l) divided by
\* (sum of w_j)^2, for the variances vs and the weights ws.
VarianceOfPairs(vs, ws) ==
  Div(Add(SumSeq([j \in 1..Len(vs) |-> Mul(Square(ws[j]), vs[j])]),
          SumSeq([j \in 1..Len(vs) |->
                   SumSeq([l \in 1..Len(vs) |-> IF l = j THEN Zero ELSE Mul(ws[j], ws[l])])])),
      Square(SumSeq(ws)))

\* The cells of the table that the pass fuses from predictions of positive
\* variance: [place, variances].
FusedPlaces(indexedData, biScores) ==
  {c \in {[place |-> p,
           variances |-> UsableVariances(indexedData, biScores,
                                         indexedData.modelNames[p[1]],
                                         indexedData.benchmarkNames[p[2]])] :
            p \in {p \in Places(indexedData) : ~KeepsCell(MergedCell(indexedData, p))}} :
     /\ Len(c.variances) >= 1
     /\ \A j \in 1..Len(c.variances) : StrictlyPositive(c.variances[j])}

\* The variance returned for the cell at a place is that of the weights made
\* from the variances by weightOf.
FusedVarianceIs(weightOf(_)) ==
  CombinedOnce =>
    \A indexedData \in {indexBenchmarkData(tb.input, "Bivariate regression")} :
      \A biScores \in {predictBivariateScores(indexedData,
                                              calculateBenchmarkEstimators(indexedData))} :
        \A c \in FusedPlaces(indexedData, biScores) :
          SquareOfDeviation(Returned(c.place[1], c.place[2]).stdDev)
            = VarianceOfPairs(c.variances,
                              [j \in 1..Len(c.variances) |-> weightOf(c.variances[j])])

\* `1 / variance`
InverseOf(variance) == Div(One, variance)

\* C27: the variance of a cell fused from predictions of the variances v_j is
\* (sum of w_j^2 v_j + sum over the ordered pairs j # l of w_j w_l) divided by
\* (sum of w_j)^2, with the weights w_j = 1 / v_j.
FusedVarianceOfPairs == FusedVarianceIs(InverseOf)

\* The same with the weights 1 / (v_j + 1e-15) of the code.
FusedVarianceOfPairsOfWeights == FusedVarianceIs(WeightOf)

\* The same for the cells fused from one prediction, or from predictions of
\* one variance.
FusedVarianceOfOneVariance ==
  CombinedOnce =>
    \A indexedData \in {indexBenchmarkData(tb.input, "Bivariate regression")} :
      \A biScores \in {predictBivariateScores(indexedData,
                                              calculateBenchmarkEstimators(indexedData))} :
        \A c \in FusedPlaces(indexedData, biScores) :
          (\A j \in 1..Len(c.variances) : c.variances[j] = c.variances[1]) =>
            SquareOfDeviation(Returned(c.place[1], c.place[2]).stdDev)
              = VarianceOfPairs(c.variances,
                                [j \in 1..Len(c.variances) |-> InverseOf(c.variances[j])])


(***************************************************************************)
(* The cells that no prediction reaches                                    *)
(***************************************************************************)
\* The places of the cells that the pass estimates without any prediction.
UnpredictedPlaces(indexedData, biScores) ==
  {p \in Places(indexedData) :
     /\ ~KeepsCell(MergedCell(indexedData, p))
     /\ Len(Predictors(indexedData, biScores, indexedData.modelNames[p[1]],
                       indexedData.benchmarkNames[p[2]])) = 0}

\* The scores of the models that have one on the benchmark at position k.
ObservedScores(indexedData, k) ==
  ScoresOf(indexedData, ModelsWith(indexedData, {indexedData.benchmarkNames[k]}),
           indexedData.benchmarkNames[k])

\* x is the mean of the scores, 0 for no score.
IsMeanOf(x, scores) ==
  IF Len(scores) = 0 THEN x = Zero ELSE Mul(x, Num(Len(scores))) = SumSeq(scores)

\* The cell returned at the place has the mean of its benchmark as score and
\* the square of that mean as variance.
MeanReturned(indexedData, p) ==
  /\ IsMeanOf(Returned(p[1], p[2]).score, ObservedScores(indexedData, p[2]))
  /\ SquareOfDeviation(Returned(p[1], p[2]).stdDev) = Square(Returned(p[1], p[2]).score)

\* C28 as stated: a cell without score that no prediction reaches takes the
\* mean of the scores of its benchmark, 0 where the benchmark has none, the
\* square of that mean as variance, and an uncertainty that is not zero.
UnpredictedTakesMeanAboveZero ==
  CombinedOnce =>
    \A indexedData \in {indexBenchmarkData(tb.input, "Bivariate regression")} :
      \A biScores \in {predictBivariateScores(indexedData,
                                              calculateBenchmarkEstimators(indexedData))} :
        \A p \in UnpredictedPlaces(indexedData, biScores) :
          /\ MeanReturned(indexedData, p)
          /\ Returned(p[1], p[2]).stdDev # Zero

\* The part of it that is about the score and the variance.
UnpredictedTakesMean ==
  CombinedOnce =>
    \A indexedData \in {indexBenchmarkData(tb.input, "Bivariate regression")} :
      \A biScores \in {predictBivariateScores(indexedData,
                                              calculateBenchmarkEstimators(indexedData))} :
        \A p \in UnpredictedPlaces(indexedData, biScores) : MeanReturned(indexedData, p)

\* A cell that no prediction reaches is returned with a mean that is not zero.
UnpredictedMeanNotZero ==
  /\ CombinedOnce
  /\ \E indexedData \in {indexBenchmarkData(tb.input, "Bivariate regression")} :
       \E biScores \in {predictBivariateScores(indexedData,
                                               calculateBenchmarkEstimators(indexedData))} :
         \E p \in UnpredictedPlaces(indexedData, biScores) :
           Returned(p[1], p[2]).score # Zero


(***************************************************************************)
(* The second pass of the combiner                                         *)
(***************************************************************************)
\* The combiner has made two passes over the table.
CombinedTwice == tb.pc = "combined" /\ tb.iterations = 2

\* The cell of the table `filled` that one pass makes from the estimators, the
\* predictions and the means of that table.
EstimatedOn(filled, p) ==
  FusedCell(filled,
            predictBivariateScores(filled, calculateBenchmarkEstimators(filled)),
            calculateMeansByBenchmark(filled),
            filled.modelNames[p[1]], filled.benchmarkNames[p[2]])

\* The cell returned at the place is the given cell.
ReturnedIs(cell, p) ==
  /\ Returned(p[1], p[2]).score = cell.score
  /\ Returned(p[1], p[2]).stdDev = cell.stdDev
  /\ Returned(p[1], p[2]).source = cell.source

\* Every cell of the table has a score: every model is among the pairs of
\* every estimator and among the scores of every mean.
CountsEveryCell(filled) ==
  /\ \A p \in Places(filled) : NotNull(MergedCell(filled, p).score)
  /\ \A bj \in Range(filled.benchmarkNames) : \A bk \in Range(filled.benchmarkNames) :
       ModelsWith(filled, {bj, bk}) = filled.modelNames

\* C29 as stated: the second pass estimates from the table of the first pass,
\* in which the cells the first pass filled count as data, every cell that
\* had no score in the input, and no other cell.
SecondPassOfMissing ==
  CombinedTwice =>
    \A merged \in {indexBenchmarkData(tb.input, "Bivariate regression")} :
      \A filled \in {computeAllBenchmarks(merged)} :
        /\ CountsEveryCell(filled)
        /\ \A p \in Places(merged) :
             IF MergedCell(merged, p).score = Null
             THEN ReturnedIs(EstimatedOn(filled, p), p)
             ELSE ReturnedIs(MergedCell(merged, p), p)

\* C29: the second pass estimates from the table of the first pass, in which
\* the cells the first pass filled count as data, every cell that had no
\* score in the input or that has the source 'Weighed bivariate regression'
\* there, and no other cell.
SecondPassOfEstimated ==
  CombinedTwice =>
    \A merged \in {indexBenchmarkData(tb.input, "Bivariate regression")} :
      \A filled \in {computeAllBenchmarks(merged)} :
        /\ CountsEveryCell(filled)
        /\ \A p \in Places(merged) :
             IF MergedCell(merged, p).score = Null
                \/ MergedCell(merged, p).source = WeighedSource
             THEN ReturnedIs(EstimatedOn(filled, p), p)
             ELSE ReturnedIs(MergedCell(merged, p), p)

\* The second pass gives to a cell without score in the input another
\* estimate than the first pass.
SecondPassDiffers ==
  /\ CombinedTwice
  /\ \E merged \in {indexBenchmarkData(tb.input, "Bivariate regression")} :
       \E filled \in {computeAllBenchmarks(merged)} :
         \E p \in Places(merged) :
           /\ MergedCell(merged, p).score = Null
           /\ ~ReturnedIs(MergedCell(filled, p), p)


(***************************************************************************)
(* Backward passes on nodes that earlier passes have graded                *)
(***************************************************************************)
\* The nodes as they are built: every gradient 0.
Fresh(nodes) == [n \in 1..Len(nodes) |-> [nodes[n] EXCEPT !.gradient = Zero]]

\* C30: computeGradients leaves on every node reachable from the root the
\* gradient that one call on fresh nodes leaves there, whatever gradients the
\* passes before it, on the same root or on another, have left on the nodes.
PassesLeaveNoTrace ==
  ag.pc = "graded" =>
    \A fresh \in {computeGradients(Fresh(ag.nodes), ag.root)} :
      \A n \in 1..Len(ag.nodes) :
        Reachable(ag.nodes, ag.root, n) => ag.nodes[n].gradient = fresh[n].gradient

\* The second pass has found, on a node reachable from its root, a gradient
\* that the first pass left there, and has left another one.
StaleGradientReplaced ==
  /\ ag.pc = "graded" /\ ag.passes = 2
  /\ \E n \in 1..Len(ag.nodes) :
       /\ Reachable(ag.nodes, ag.root, n)
       /\ ag.previous[n].gradient # Zero
       /\ ag.nodes[n].gradient # ag.previous[n].gradient

====
